---- MODULE Spec2Model ----
(***************************************************************************)
(* Model of the bliply JSON-RPC gateway: the spillover router              *)
(* (core/router.py) with its QuotaManager (core/quota_manager.py),         *)
(* RateLimiter (core/rate_limiter.py), provider model (providers/base.py), *)
(* request parser (services/request_parser.py) and metrics store           *)
(* (data/metrics.py).                                                      *)
(*                                                                         *)
(* Requests are asyncio tasks on one event loop: everything between two    *)
(* awaits runs atomically, and the only await of optimize_request is the   *)
(* upstream dispatch.  One action therefore runs a request from one        *)
(* suspension point to the next.                                           *)
(***************************************************************************)
EXTENDS Integers, Sequences, FiniteSets, TLC

\* ---------------------------------------------------------------- bounds

\* Number of optimize_request calls (tasks) in a run.
NumReq == 2
\* Largest reading of time.time(), in seconds.
MaxTime == 2
\* Largest number of QuotaManager.reset_usage calls in a run.
MaxResets == 1
\* Number of requests a client submits one after the other.
MaxSeq == 7

Req == 1..NumReq

\* ------------------------------------------------------- provider model

\* self.providers of RPCOptimizer, in list order.
providers == <<"P1", "P2", "P3">>

\* The provider lists the scenarios of the integration tests are run with: a
\* free and an unlimited paid provider, two free providers only, and paid
\* providers only.
spillover_providers == <<"F1", "F2">>
free_providers == <<"P1", "P2">>
paid_providers == <<"F2", "P3">>

Names == {"P1", "P2", "P3", "F1", "F2"}

Methods == {"eth_blockNumber"}

\* RPCProvider.__init__: the configuration each provider is built from.
config ==
    [P1 |-> [priority |-> 1, limit_rps |-> 1, limit_monthly |-> 3,
             pricing_model |-> "cu",
             method_costs |-> [eth_blockNumber |-> 2]],
     P2 |-> [priority |-> 1, limit_rps |-> 2, limit_monthly |-> 1,
             pricing_model |-> "request",
             method_costs |-> [eth_blockNumber |-> 7]],
     P3 |-> [priority |-> 2, limit_rps |-> 1, limit_monthly |-> 0,
             pricing_model |-> "credit",
             method_costs |-> [default |-> 3]],
     F1 |-> [priority |-> 1, limit_rps |-> 10, limit_monthly |-> 50,
             pricing_model |-> "cu",
             method_costs |-> [eth_getLogs |-> 75]],
     F2 |-> [priority |-> 2, limit_rps |-> 10, limit_monthly |-> 0,
             pricing_model |-> "request",
             method_costs |-> [eth_blockNumber |-> 1]]]

priority(p) == config[p].priority
limit_rps(p) == config[p].limit_rps
limit_monthly(p) == config[p].limit_monthly

\* dict.get(key, default) on a method_costs mapping.
costs_get(mc, key, default) == IF key \in DOMAIN mc THEN mc[key] ELSE default

\* get_cost that charges one unit whatever the pricing model.
get_cost_flat(p, method) == 1

\* RPCProvider.get_cost
get_cost(p, method) ==
    IF config[p].pricing_model = "cu"
    THEN costs_get(config[p].method_costs, method, 10)
    ELSE IF config[p].pricing_model = "credit"
         THEN costs_get(config[p].method_costs, method,
                        costs_get(config[p].method_costs, "default", 20))
         ELSE 1

\* ------------------------------------------------------- quota manager

\* QuotaManager.__init__ with no counter file: usage_data = {}.
EmptyMap == [q \in {} |-> 0]

\* QuotaManager.get_usage
get_usage(u, p) == IF p \in DOMAIN u THEN u[p] ELSE 0

\* check_allowance that forgets the estimated cost.
check_allowance_ignores_cost(u, p, limit, cost) ==
    IF limit <= 0 THEN TRUE ELSE get_usage(u, p) <= limit

\* check_allowance with < for <=.
check_allowance_strict(u, p, limit, cost) ==
    IF limit <= 0 THEN TRUE ELSE (get_usage(u, p) + cost) < limit

\* QuotaManager.check_allowance
check_allowance(u, p, limit, cost) ==
    IF limit <= 0 THEN TRUE ELSE (get_usage(u, p) + cost) <= limit

\* increment that stores the count instead of adding it.
increment_overwrites(u, p, count) ==
    [q \in DOMAIN u \cup {p} |-> IF q = p THEN count ELSE u[q]]

\* QuotaManager.increment (the counter map; the save is _save_data)
increment(u, p, count) ==
    [q \in DOMAIN u \cup {p} |-> IF q = p THEN get_usage(u, p) + count ELSE u[q]]

\* max that returns the smaller argument.
Max_smaller(a, b) == IF a >= b THEN b ELSE a

\* max(0, current - count)
Max(a, b) == IF a >= b THEN a ELSE b

\* decrement called without the count (its default, 1).
decrement_by_one(u, p, count) ==
    [q \in DOMAIN u \cup {p} |->
        IF q = p THEN Max(0, get_usage(u, p) - 1) ELSE u[q]]

\* QuotaManager.decrement (the counter map; the save is _save_data)
decrement(u, p, count) ==
    [q \in DOMAIN u \cup {p} |->
        IF q = p THEN Max(0, get_usage(u, p) - count) ELSE u[q]]

\* Outcome of _save_data on a disk in state d: written; IOError from open or
\* json.dump (caught and logged) when the file cannot be written; OSError from
\* os.makedirs, which is outside the try, when the directory cannot be made.
SaveOutcome(d) ==
    IF d = "ok" THEN "ok" ELSE IF d = "nodir" THEN "oserror" ELSE "ioerror"

\* _save_data that never writes.
save_data_stale(f, u, outcome) == f

\* QuotaManager._save_data: the file after a save of map u.
save_data(f, u, outcome) ==
    IF outcome = "ok" THEN [exists |-> TRUE, valid |-> TRUE, data |-> u] ELSE f

\* QuotaManager._load_data: the counters a QuotaManager constructed on file f
\* starts with.
load_data(f) == IF f.exists /\ f.valid THEN f.data ELSE EmptyMap

\* QuotaManager.try_reserve: the returned flag and the counters and file
\* after; raised when _save_data let an exception out instead of returning.
try_reserve(u, f, p, cost, limit, outcome) ==
    IF check_allowance(u, p, limit, cost)
    THEN [ok |-> TRUE, u |-> increment(u, p, cost),
          f |-> save_data(f, increment(u, p, cost), outcome),
          raised |-> outcome = "oserror"]
    ELSE [ok |-> FALSE, u |-> u, f |-> f, raised |-> FALSE]

\* --------------------------------------------------------- rate limiter

\* RateLimiter(window_size_seconds=1) in RPCOptimizer.__init__
window_size == 1

RECURSIVE PruneOld(_, _)
\* is_allowed: while timestamps and timestamps[0] < cutoff: popleft()
PruneOld(q, cutoff) ==
    IF q # <<>> /\ Head(q) < cutoff THEN PruneOld(Tail(q), cutoff) ELSE q

\* is_allowed that records the timestamp of a denied call as well.
is_allowed_records_denials(q, limit, t) ==
    IF limit <= 0
    THEN [allowed |-> TRUE, q |-> q]
    ELSE LET pruned == PruneOld(q, t - window_size)
         IN  IF Len(pruned) < limit
             THEN [allowed |-> TRUE, q |-> Append(pruned, t)]
             ELSE [allowed |-> FALSE, q |-> Append(pruned, t)]

\* is_allowed that never removes a timestamp from the deque.
is_allowed_never_prunes(q, limit, t) ==
    IF limit <= 0
    THEN [allowed |-> TRUE, q |-> q]
    ELSE IF Len(q) < limit
         THEN [allowed |-> TRUE, q |-> Append(q, t)]
         ELSE [allowed |-> FALSE, q |-> q]

\* is_allowed with <= for < in the limit test.
is_allowed_off_by_one(q, limit, t) ==
    IF limit <= 0
    THEN [allowed |-> TRUE, q |-> q]
    ELSE LET pruned == PruneOld(q, t - window_size)
         IN  IF Len(pruned) <= limit
             THEN [allowed |-> TRUE, q |-> Append(pruned, t)]
             ELSE [allowed |-> FALSE, q |-> pruned]

\* is_allowed that prunes every timestamp older than now.
is_allowed_no_window(q, limit, t) ==
    IF limit <= 0
    THEN [allowed |-> TRUE, q |-> q]
    ELSE LET pruned == PruneOld(q, t)
         IN  IF Len(pruned) < limit
             THEN [allowed |-> TRUE, q |-> Append(pruned, t)]
             ELSE [allowed |-> FALSE, q |-> pruned]

\* RateLimiter.is_allowed: the returned flag and the provider's deque after.
is_allowed(q, limit, t) ==
    IF limit <= 0
    THEN [allowed |-> TRUE, q |-> q]
    ELSE LET pruned == PruneOld(q, t - window_size)
         IN  IF Len(pruned) < limit
             THEN [allowed |-> TRUE, q |-> Append(pruned, t)]
             ELSE [allowed |-> FALSE, q |-> pruned]

\* -------------------------------------------------------- metrics store

\* add_record that appends the row twice.
add_record_twice(ms, p, method, latency_ms) ==
    [ms EXCEPT ![p] = @ \o <<[method |-> method, latency |-> latency_ms],
                              [method |-> method, latency |-> latency_ms]>>]

\* MetricsStore.add_record: one row appended to the provider's own store.
add_record(ms, p, method, latency_ms) ==
    [ms EXCEPT ![p] = Append(@, [method |-> method, latency |-> latency_ms])]

\* MetricsStore.get_all_records(method): the rows of one method, in order.
get_all_records(rows, method) ==
    SelectSeq(rows, LAMBDA row : row.method = method)

RECURSIVE SumLatency(_)
SumLatency(rows) ==
    IF rows = <<>> THEN 0 ELSE Head(rows).latency + SumLatency(Tail(rows))

\* MetricCollector.get_provider_latency: the mean latency of the provider's
\* rows for the method, as the fraction s/n; the default when there is none.
get_provider_latency(ms, p, method, default) ==
    LET records == get_all_records(ms[p], method)
    IN  IF records = <<>>
        THEN [s |-> default, n |-> 1]
        ELSE [s |-> SumLatency(records), n |-> Len(records)]

\* Order of two latency estimates (fractions with positive denominators).
LatencyLess(a, b) == a.s * b.n < b.s * a.n

\* The latency recorded for a failed dispatch (router: 5000.0).
PenaltyLatency == 5000
\* The latency estimate of a provider without records (router: default=500.0).
DefaultLatency == 500

\* ------------------------------------------------------- request parser

MissingId == [kind |-> "missing", v |-> 0]

\* RequestParser.parse_rpc_request on a payload whose absent members are
\* "MISSING": the parsed request, or the exception raised.
parse_rpc_request(payload) ==
    IF payload.jsonrpc = "MISSING" \/ payload.method = "MISSING"
       \/ payload.id.kind = "missing"
    THEN [ok |-> FALSE, error |-> "ValueError"]
    ELSE IF payload.jsonrpc # "2.0"
    THEN [ok |-> FALSE, error |-> "ValueError"]
    ELSE IF payload.method = "NONSTRING"
    THEN [ok |-> FALSE, error |-> "AttributeError"]
    ELSE IF payload.method \in {"", " "}
    THEN [ok |-> FALSE, error |-> "ValueError"]
    ELSE IF payload.params \notin {"LIST", "MISSING"}
    THEN [ok |-> FALSE, error |-> "ValueError"]
    ELSE IF payload.id.kind \notin {"int", "bool", "str"}
    THEN [ok |-> FALSE, error |-> "ValueError"]
    ELSE [ok |-> TRUE, method |-> payload.method, id |-> payload.id]

\* The payloads task r may submit: a well-formed request carrying id r, and
\* one without "method".
Payloads(r) ==
    {[jsonrpc |-> "2.0", method |-> m, params |-> "LIST",
      id |-> [kind |-> "int", v |-> r]] : m \in Methods}
    \cup
    {[jsonrpc |-> "2.0", method |-> "MISSING", params |-> "LIST",
      id |-> [kind |-> "int", v |-> r]]}

NoPayload ==
    [jsonrpc |-> "MISSING", method |-> "MISSING", params |-> "MISSING",
     id |-> MissingId]

\* ----------------------------------------------------- response handler

NoResponse ==
    [kind |-> "none", code |-> 0, id |-> MissingId,
     selected_provider |-> "none", message |-> "none", body |-> "none"]

\* ResponseHandler.build_response: the id is raw_response.get("id"), the body
\* the reply's result, or its error, or the -32603 "Invalid response from
\* provider" error when it has neither.
build_response(raw_response, selected_provider) ==
    [kind |-> "success", code |-> 0, id |-> raw_response.id,
     selected_provider |-> selected_provider, message |-> "none",
     body |-> IF raw_response.member = "result" THEN "result"
              ELSE IF raw_response.member = "error" THEN "error"
              ELSE "invalid_response"]

\* ResponseHandler.build_error_response
build_error_response(error_message, request_id, error_code) ==
    [kind |-> "error", code |-> error_code, id |-> request_id,
     selected_provider |-> "none", message |-> error_message,
     body |-> "error"]

\* ------------------------------------------------------------ router

VARIABLES
    fleet,        \* RPCOptimizer.providers: the provider names, in list order
    history       \* the selected provider of each response a client got so far

\* RPCOptimizer(enable_exploration=True) default.
enable_exploration == TRUE

\* A sort key that forgets the priority.
KeyLess_latency_only(a, b) == LatencyLess(a.latency, b.latency)

\* key=lambda x: (x.provider.priority, x.latency)
KeyLess(a, b) ==
    \/ priority(a.provider) < priority(b.provider)
    \/ /\ priority(a.provider) = priority(b.provider)
       /\ LatencyLess(a.latency, b.latency)

RECURSIVE InsertSorted(_, _)
InsertSorted(s, x) ==
    IF s = <<>> THEN <<x>>
    ELSE IF KeyLess(x, Head(s)) THEN <<x>> \o s
         ELSE <<Head(s)>> \o InsertSorted(Tail(s), x)

RECURSIVE StableSort(_)
\* list.sort(key=...): stable, ascending.
StableSort(c) ==
    IF c = <<>> THEN <<>>
    ELSE InsertSorted(StableSort(SubSeq(c, 1, Len(c) - 1)), c[Len(c)])

\* for p in self.providers: p is one of the gateway's providers.
InFleet(p) == \E i \in 1..Len(fleet) : fleet[i] = p

\* RPCOptimizer._get_potential_providers
get_potential_providers(u, ms, method) ==
    LET eligible == SelectSeq(fleet,
                        LAMBDA p : check_allowance(u, p, limit_monthly(p), 0))
        candidates == [i \in 1..Len(eligible) |->
                        [provider |-> eligible[i],
                         latency |-> get_provider_latency(ms, eligible[i],
                                                          method, DefaultLatency)]]
    IN  StableSort(candidates)

\* A head insert that leaves the provider at its old place too.
MoveToFront_keeps_copy(s, x) == <<x>> \o s

\* providers_to_try.remove(r_provider); providers_to_try.insert(0, r_provider)
MoveToFront(s, x) == <<x>> \o SelectSeq(s, LAMBDA y : y # x)

\* Exploration that picks among all candidates, not the free tier.
ExploreOrders_any_tier(order, explore) ==
    IF explore /\ order # <<>>
    THEN {MoveToFront(order, order[i]) : i \in 1..Len(order)}
    ELSE {order}

\* optimize_request step 2: the orders exploration can produce from the
\* sorted candidates (explore: random.random() < exploration_rate).
ExploreOrders(order, explore) ==
    LET free_tier == SelectSeq(order, LAMBDA p : priority(p) = 1)
    IN  IF explore /\ free_tier # <<>>
        THEN {MoveToFront(order, free_tier[i]) : i \in 1..Len(free_tier)}
        ELSE {order}

\* A loop that gives up after its first candidate.
LoopDone_first_only(order, i) == i > 1

\* for provider in providers_to_try: the list is exhausted at index i.
LoopDone(order, i) == i > Len(order)

RECURSIVE TryProviders_reserve_first(_, _, _, _, _)
\* A for loop that reserves the quota before it asks the rate limiter.
TryProviders_reserve_first(order, method, t, outcome, st) ==
    IF LoopDone(order, st.i)
    THEN [st EXCEPT !.kind = "exhausted"]
    ELSE LET p == order[st.i]
             estimated_cost == get_cost(p, method)
             rv == try_reserve(st.u, st.f, p, estimated_cost,
                               limit_monthly(p), outcome)
             a == is_allowed(st.rl[p], limit_rps(p), t)
             rl2 == [st.rl EXCEPT ![p] = a.q]
         IN  IF ~rv.ok
             THEN TryProviders_reserve_first(order, method, t, outcome,
                      [st EXCEPT !.i = @ + 1, !.tr[p] = "refused"])
             ELSE IF ~a.allowed
             THEN TryProviders_reserve_first(order, method, t, outcome,
                      [st EXCEPT !.i = @ + 1, !.rl = rl2, !.u = rv.u,
                                 !.f = rv.f, !.tr[p] = "limited"])
             ELSE [st EXCEPT !.kind = "dispatch", !.rl = rl2, !.u = rv.u,
                             !.f = rv.f, !.tr[p] = "inflight", !.at[p] = t,
                             !.cost = estimated_cost]

RECURSIVE TryProviders_releases_slot(_, _, _, _, _)
\* A for loop that gives the limiter slot back when the reservation is
\* refused.
TryProviders_releases_slot(order, method, t, outcome, st) ==
    IF LoopDone(order, st.i)
    THEN [st EXCEPT !.kind = "exhausted"]
    ELSE LET p == order[st.i]
             a == is_allowed(st.rl[p], limit_rps(p), t)
             rl2 == [st.rl EXCEPT ![p] = a.q]
             estimated_cost == get_cost(p, method)
             rv == try_reserve(st.u, st.f, p, estimated_cost,
                               limit_monthly(p), outcome)
         IN  IF ~a.allowed
             THEN TryProviders_releases_slot(order, method, t, outcome,
                      [st EXCEPT !.i = @ + 1, !.rl = rl2, !.tr[p] = "limited"])
             ELSE IF ~rv.ok
             THEN TryProviders_releases_slot(order, method, t, outcome,
                      [st EXCEPT !.i = @ + 1, !.tr[p] = "refused"])
             ELSE IF rv.raised
             THEN [st EXCEPT !.kind = "raised", !.rl = rl2, !.u = rv.u,
                             !.f = rv.f, !.tr[p] = "raised"]
             ELSE [st EXCEPT !.kind = "dispatch", !.rl = rl2, !.u = rv.u,
                             !.f = rv.f, !.tr[p] = "inflight", !.at[p] = t,
                             !.cost = estimated_cost]

RECURSIVE TryProviders(_, _, _, _, _)
\* optimize_request step 3: the for loop from candidate st.i up to the next
\* await (a dispatch) or the end of the list.
TryProviders(order, method, t, outcome, st) ==
    IF LoopDone(order, st.i)
    THEN [st EXCEPT !.kind = "exhausted"]
    ELSE LET p == order[st.i]
             a == is_allowed(st.rl[p], limit_rps(p), t)
             rl2 == [st.rl EXCEPT ![p] = a.q]
             estimated_cost == get_cost(p, method)
             rv == try_reserve(st.u, st.f, p, estimated_cost,
                               limit_monthly(p), outcome)
         IN  IF ~a.allowed
             THEN TryProviders(order, method, t, outcome,
                      [st EXCEPT !.i = @ + 1, !.rl = rl2, !.tr[p] = "limited"])
             ELSE IF ~rv.ok
             THEN TryProviders(order, method, t, outcome,
                      [st EXCEPT !.i = @ + 1, !.rl = rl2, !.tr[p] = "refused"])
             ELSE IF rv.raised
             THEN [st EXCEPT !.kind = "raised", !.rl = rl2, !.u = rv.u,
                             !.f = rv.f, !.tr[p] = "raised"]
             ELSE [st EXCEPT !.kind = "dispatch", !.rl = rl2, !.u = rv.u,
                             !.f = rv.f, !.tr[p] = "inflight", !.at[p] = t,
                             !.cost = estimated_cost]

\* ------------------------------------------------------------- state

VARIABLES
    usage_data,   \* QuotaManager.usage_data: provider name -> used units
    file,         \* data/usage_counters.json
    disk,         \* whether data/usage_counters.json can be written
    requests,     \* RateLimiter.requests: provider name -> deque of timestamps
    metrics,      \* provider.metrics of every provider: the rows appended
    now,          \* the reading of time.time()
    resets,       \* number of reset_usage calls so far
    req           \* the optimize_request tasks

\* State of the parts of the gateway that optimize_request does not touch.
VARIABLES
    crash,        \* the gateway process: running or killed, and the write
                  \* it was killed in
    stores,       \* provider.metrics of main.py's providers: a MetricsStore
    calls,        \* (provider, method) -> number of add_record calls made
    called,       \* the providers an upstream HTTP call was sent to
    out,          \* what the last call or handler computed and returned
    arg,          \* the payload handed to the request parser
    cache,        \* ScoreCache._cache: method -> entry
    hits,         \* ScoreCache._hits
    misses,       \* ScoreCache._misses
    reads,        \* number of get_cached_scores calls since reset_stats
    stored        \* method -> the value last given to set_cached_scores

\* State of the worker threads of the legacy Flask application.
VARIABLES
    method_workers, \* main.py method_workers: method -> MethodWorker
    workers,        \* every MethodWorker constructed so far, in order
    threads         \* the HTTP handler threads inside rpc_best

legacyVars == <<stores, calls, called, out>>

workerVars == <<method_workers, workers, threads>>

cacheVars == <<cache, hits, misses, reads, stored>>

\* Everything but the router's state and the process state.
auxVars == <<legacyVars, arg, cacheVars, workerVars>>

sideVars == <<crash, auxVars>>

routerVars == <<usage_data, file, disk, requests, metrics, now, resets, req,
                fleet, history>>

nonLegacyVars == <<routerVars, crash, arg, cacheVars, workerVars>>

nonWorkerVars == <<routerVars, crash, legacyVars, arg, cacheVars>>

nonCacheVars == <<usage_data, file, disk, requests, metrics, resets, req,
                  fleet, history, crash, stores, calls, called, arg,
                  workerVars>>

vars == <<usage_data, file, disk, requests, metrics, now, resets, req,
          fleet, history, sideVars>>

\* The process is running and was never killed.
NoCrash == [down |-> FALSE, count |-> 0, before |-> EmptyMap, after |-> EmptyMap]

\* main.py: providers = load_providers(), the configured providers (two of
\* them here) followed by the virtual Best provider.
load_providers == <<"Chainstack", "Alchemy", "Best">>

LegacyNames == {"Chainstack", "Alchemy", "Best"}

LegacyMethods == {"eth_blockNumber", "eth_call"}

Keys == LegacyNames \X LegacyMethods

\* MetricsStore.__init__: no rows, no counts.
EmptyStore == [df |-> <<>>, request_counts |-> << >>]

NoOut == [kind |-> "none"]

\* ScoreCache.__init__ and its clients' view: nothing cached, nothing read.
CacheInit ==
    /\ cache = << >>
    /\ hits = 0
    /\ misses = 0
    /\ reads = 0
    /\ stored = [m \in LegacyMethods |-> "none"]

\* Number of HTTP handler threads serving /rpc/best at once.
NumHandlers == 2

Handlers == 1..NumHandlers

\* A handler thread that is not inside rpc_best. made is the MethodWorker the
\* thread constructed, worker the one get_or_create_worker returned to it,
\* ticket the rank of its submit among all submits, results the number of
\* items put on its result queue.
IdleThread ==
    [pc |-> "idle", method |-> "none", made |-> 0, worker |-> 0,
     ticket |-> 0, results |-> 0]

\* main.py at import: method_workers = {}, no worker thread yet.
WorkerInit ==
    /\ method_workers = << >>
    /\ workers = <<>>
    /\ threads = [t \in Handlers |-> IdleThread]

LegacyInit ==
    /\ stores = [n \in LegacyNames |-> EmptyStore]
    /\ calls = [k \in Keys |-> 0]
    /\ called = {}
    /\ out = NoOut

SideInit ==
    /\ crash = NoCrash
    /\ LegacyInit
    /\ arg = NoPayload
    /\ CacheInit
    /\ WorkerInit

\* A task that has not called optimize_request yet. trace, at and epoch are
\* the task's history: what became of each candidate, the time of each
\* dispatch, and the number of reset_usage calls made before its reservation.
IdleReq ==
    [state |-> "idle", payload |-> NoPayload, method |-> "none",
     providers_to_try |-> <<>>, idx |-> 0, estimated_cost |-> 0,
     last_error |-> "none", response |-> NoResponse,
     trace |-> [p \in Names |-> "none"], at |-> [p \in Names |-> -1],
     epoch |-> 0]

Init ==
    /\ usage_data = EmptyMap
    /\ file = [exists |-> FALSE, valid |-> TRUE, data |-> EmptyMap]
    /\ disk = "ok"
    /\ requests = [p \in Names |-> <<>>]
    /\ metrics = [p \in Names |-> <<>>]
    /\ now = 0
    /\ resets = 0
    /\ req = [r \in Req |-> IdleReq]
    /\ fleet = providers
    /\ history = <<>>
    /\ SideInit

\* What the upstream call can do: a decoded reply with its latency, or an
\* exception of RPCClient.send_request.
Latencies == {100}
UpstreamErrors == {"connection"}

\* An error message that never quotes the upstream error.
ExhaustedMessage_drops_error(last_error) == <<"rate_limited">>

\* The "All eligible providers ..." message of optimize_request.
ExhaustedMessage(last_error) ==
    IF last_error # "none" THEN <<"failed_or_rate_limited", last_error>>
    ELSE <<"rate_limited">>

\* The task after the for loop stopped in st: suspended in the dispatch to
\* candidate st.i, returned with the -32000 response, or, when an exception
\* left the loop, returned by the outer handler with -32603.
AfterLoop(rq, st, request_id) ==
    IF st.kind = "dispatch"
    THEN [rq EXCEPT !.state = "inflight", !.idx = st.i,
                    !.estimated_cost = st.cost, !.trace = st.tr, !.at = st.at,
                    !.epoch = resets]
    ELSE IF st.kind = "raised"
    THEN [rq EXCEPT !.state = "done", !.idx = 0, !.estimated_cost = 0,
                    !.trace = st.tr, !.at = st.at,
                    !.response = build_error_response(<<"OSError">>,
                                                      request_id, -32603)]
    ELSE [rq EXCEPT !.state = "done", !.idx = 0, !.estimated_cost = 0,
                    !.trace = st.tr, !.at = st.at,
                    !.response = build_error_response(
                                    ExhaustedMessage(rq.last_error),
                                    request_id, -32000)]

\* The loop state optimize_request enters the for loop with at candidate i.
LoopState(i, u, f, tr, at) ==
    [i |-> i, rl |-> requests, u |-> u, f |-> f, tr |-> tr, at |-> at,
     kind |-> "loop", cost |-> 0]

\* optimize_request from its call to its first await or return.
Start(r) ==
    /\ req[r].state = "idle"
    /\ \E payload \in Payloads(r),
          explore \in (IF enable_exploration THEN BOOLEAN ELSE {FALSE}) :
        LET parsed == parse_rpc_request(payload)
            rq0 == [IdleReq EXCEPT !.payload = payload]
        IN  IF ~parsed.ok
            THEN \* except Exception: build_error_response(str(e), id, -32603)
                 /\ req' = [req EXCEPT ![r] = [rq0 EXCEPT
                              !.state = "done",
                              !.response = build_error_response(
                                  <<parsed.error>>,
                                  IF payload.id.kind = "missing"
                                  THEN [kind |-> "int", v |-> 1]
                                  ELSE payload.id,
                                  -32603)]]
                 /\ UNCHANGED <<usage_data, file, requests>>
            ELSE LET potential == get_potential_providers(usage_data, metrics,
                                                          parsed.method)
                     sorted == [i \in 1..Len(potential) |-> potential[i].provider]
                     filtered == [p \in Names |->
                                    IF InFleet(p)
                                       /\ \A i \in 1..Len(sorted) : sorted[i] # p
                                    THEN "overquota" ELSE "none"]
                     rq1 == [rq0 EXCEPT !.method = parsed.method]
                 IN  IF potential = <<>>
                     THEN /\ req' = [req EXCEPT ![r] = [rq1 EXCEPT
                                      !.state = "done",
                                      !.trace = filtered,
                                      !.response = build_error_response(
                                          <<"no_quota">>, parsed.id, -32000)]]
                          /\ UNCHANGED <<usage_data, file, requests>>
                     ELSE \E order \in ExploreOrders(sorted, explore) :
                          LET st == TryProviders(order, parsed.method, now,
                                        SaveOutcome(disk),
                                        LoopState(1, usage_data, file, filtered,
                                                  IdleReq.at))
                          IN  /\ req' = [req EXCEPT ![r] = AfterLoop(
                                            [rq1 EXCEPT !.providers_to_try = order],
                                            st, parsed.id)]
                              /\ usage_data' = st.u
                              /\ file' = st.f
                              /\ requests' = st.rl
    /\ UNCHANGED <<metrics, now, resets, disk, fleet, history, sideVars>>

\* A success path that gives the reserved units back.
DispatchSucceeds_rolls_back(r) ==
    /\ req[r].state = "inflight"
    /\ \E actual_latency \in Latencies :
        LET rq == req[r]
            p == rq.providers_to_try[rq.idx]
            raw_response == [id |-> rq.payload.id, member |-> "result"]
        IN  /\ metrics' = add_record(metrics, p, rq.method, actual_latency)
            /\ usage_data' = decrement(usage_data, p, rq.estimated_cost)
            /\ req' = [req EXCEPT ![r] = [rq EXCEPT
                          !.state = "done",
                          !.trace[p] = "ok",
                          !.response = build_response(raw_response, p)]]
    /\ UNCHANGED <<file, requests, now, resets, disk, fleet, history, sideVars>>

\* The await of send_request returns a reply: record the metrics and return
\* the success response.
DispatchSucceeds(r) ==
    /\ req[r].state = "inflight"
    /\ \E actual_latency \in Latencies :
        LET rq == req[r]
            p == rq.providers_to_try[rq.idx]
            raw_response == [id |-> rq.payload.id, member |-> "result"]
        IN  /\ metrics' = add_record(metrics, p, rq.method, actual_latency)
            /\ req' = [req EXCEPT ![r] = [rq EXCEPT
                          !.state = "done",
                          !.trace[p] = "ok",
                          !.response = build_response(raw_response, p)]]
    /\ UNCHANGED <<usage_data, file, requests, now, resets, disk, fleet,
                 history, sideVars>>

\* A failure path that tries the failed provider again.
DispatchFails_retries_same(r) ==
    /\ req[r].state = "inflight"
    /\ \E e \in UpstreamErrors :
        LET rq == req[r]
            p == rq.providers_to_try[rq.idx]
            u1 == decrement(usage_data, p, rq.estimated_cost)
            f1 == save_data(file, u1, SaveOutcome(disk))
            st == TryProviders(rq.providers_to_try, rq.method, now,
                      SaveOutcome(disk),
                      LoopState(rq.idx, u1, f1,
                                [rq.trace EXCEPT ![p] = "failed"], rq.at))
        IN  /\ metrics' = add_record(metrics, p, rq.method, PenaltyLatency)
            /\ req' = [req EXCEPT ![r] =
                          AfterLoop([rq EXCEPT !.last_error = e], st,
                                    rq.payload.id)]
            /\ usage_data' = st.u
            /\ file' = st.f
            /\ requests' = st.rl
    /\ UNCHANGED <<now, resets, disk, fleet, history, sideVars>>

\* The await of send_request raises: record the penalty, roll the
\* reservation back and go on with the next candidates.
DispatchFails(r) ==
    /\ req[r].state = "inflight"
    /\ \E e \in UpstreamErrors :
        LET rq == req[r]
            p == rq.providers_to_try[rq.idx]
            u1 == decrement(usage_data, p, rq.estimated_cost)
            f1 == save_data(file, u1, SaveOutcome(disk))
            st0 == LoopState(rq.idx + 1, u1, f1,
                             [rq.trace EXCEPT ![p] = "failed"], rq.at)
            st == IF SaveOutcome(disk) = "oserror"
                  THEN [st0 EXCEPT !.kind = "raised"]
                  ELSE TryProviders(rq.providers_to_try, rq.method, now,
                                    SaveOutcome(disk), st0)
        IN  /\ metrics' = add_record(metrics, p, rq.method, PenaltyLatency)
            /\ req' = [req EXCEPT ![r] =
                          AfterLoop([rq EXCEPT !.last_error = e], st,
                                    rq.payload.id)]
            /\ usage_data' = st.u
            /\ file' = st.f
            /\ requests' = st.rl
    /\ UNCHANGED <<now, resets, disk, fleet, history, sideVars>>

\* The task is cancelled while it awaits send_request: CancelledError is no
\* Exception, so neither handler of optimize_request runs.
Cancel(r) ==
    /\ req[r].state = "inflight"
    /\ LET rq == req[r]
           p == rq.providers_to_try[rq.idx]
       IN  req' = [req EXCEPT ![r] = [rq EXCEPT !.state = "cancelled",
                                                !.trace[p] = "cancelled"]]
    /\ UNCHANGED <<usage_data, file, requests, metrics, now, resets, disk,
                 fleet, history, sideVars>>

\* QuotaManager.reset_usage
ResetUsage(p) ==
    /\ resets < MaxResets
    /\ p \in DOMAIN usage_data
    /\ usage_data' = [usage_data EXCEPT ![p] = 0]
    /\ file' = save_data(file, usage_data', SaveOutcome(disk))
    /\ resets' = resets + 1
    /\ UNCHANGED <<requests, metrics, now, disk, req, fleet, history, sideVars>>

\* Time passes.
Tick ==
    /\ now < MaxTime
    /\ now' = now + 1
    /\ UNCHANGED <<usage_data, file, requests, metrics, resets, disk, req,
                 fleet, history, sideVars>>

Next ==
    \/ \E r \in Req : Start(r)
    \/ \E r \in Req : DispatchSucceeds(r)
    \/ \E r \in Req : DispatchFails(r)
    \/ \E r \in Req : Cancel(r)
    \/ \E p \in Names : ResetUsage(p)
    \/ Tick

Spec == Init /\ [][Next]_vars

\* ------------------------------------------- sequential client scenarios

\* The client of the scenario tests reads the response of task r, notes the
\* provider that served it and submits its next request.
Retire(r) ==
    /\ req[r].state = "done"
    /\ Len(history) < MaxSeq
    /\ history' = Append(history, req[r].response.selected_provider)
    /\ req' = [req EXCEPT ![r] = IdleReq]
    /\ UNCHANGED <<usage_data, file, requests, metrics, now, resets, disk,
                 fleet, sideVars>>

\* A gateway built over one of the scenario provider lists, counters empty.
ScenarioInit ==
    /\ usage_data = EmptyMap
    /\ file = [exists |-> FALSE, valid |-> TRUE, data |-> EmptyMap]
    /\ disk = "ok"
    /\ requests = [p \in Names |-> <<>>]
    /\ metrics = [p \in Names |-> <<>>]
    /\ now = 0
    /\ resets = 0
    /\ req = [r \in Req |-> IdleReq]
    /\ fleet \in {spillover_providers, free_providers, paid_providers}
    /\ history = <<>>
    /\ SideInit

\* One client, one request at a time, every upstream call answered.
ScenarioNext ==
    \/ Start(1)
    \/ DispatchSucceeds(1)
    \/ Retire(1)
    \/ Tick

ScenarioSpec == ScenarioInit /\ [][ScenarioNext]_vars

\* ------------------------------------------------ free providers only

\* A gateway whose providers all have a monthly limit, counters empty.
FreeInit ==
    /\ usage_data = EmptyMap
    /\ file = [exists |-> FALSE, valid |-> TRUE, data |-> EmptyMap]
    /\ disk = "ok"
    /\ requests = [p \in Names |-> <<>>]
    /\ metrics = [p \in Names |-> <<>>]
    /\ now = 0
    /\ resets = 0
    /\ req = [r \in Req |-> IdleReq]
    /\ fleet = free_providers
    /\ history = <<>>
    /\ SideInit

FreeSpec == FreeInit /\ [][Next]_vars

\* ------------------------------------------------- counter file on disk

\* A gateway over the free providers whose counter file is writable, cannot
\* be opened for writing, or lies in a directory that cannot be created.
DiskInit ==
    /\ usage_data = EmptyMap
    /\ file = [exists |-> FALSE, valid |-> TRUE, data |-> EmptyMap]
    /\ disk \in {"ok", "nofile", "nodir"}
    /\ requests = [p \in Names |-> <<>>]
    /\ metrics = [p \in Names |-> <<>>]
    /\ now = 0
    /\ resets = 0
    /\ req = [r \in Req |-> IdleReq]
    /\ fleet = free_providers
    /\ history = <<>>
    /\ SideInit

DiskSpec == DiskInit /\ [][Next]_vars

\* ------------------------------------------------- process killed in a write

MaxCrashes == 1

\* data/usage_counters.json when the process dies inside _save_data writing
\* map u: before open(file, 'w') the old file is intact; once open has
\* truncated the file and until json.dump has written the last byte it holds
\* a strict prefix of the JSON text, which does not parse; after that it
\* holds u.
interrupted_save(f, u, phase) ==
    IF phase = "before_open" THEN f
    ELSE IF phase = "truncated"
    THEN [exists |-> TRUE, valid |-> FALSE, data |-> EmptyMap]
    ELSE [exists |-> TRUE, valid |-> TRUE, data |-> u]

\* optimize_request of task r reaches the _save_data of its first reservation
\* and the process is killed there; every task dies with it.
CrashInSave(r) ==
    /\ ~crash.down
    /\ crash.count < MaxCrashes
    /\ req[r].state = "idle"
    /\ LET potential == get_potential_providers(usage_data, metrics,
                                                "eth_blockNumber")
           sorted == [i \in 1..Len(potential) |-> potential[i].provider]
           st == TryProviders(sorted, "eth_blockNumber", now, "ok",
                              LoopState(1, usage_data, file, IdleReq.trace,
                                        IdleReq.at))
       IN  /\ st.kind = "dispatch"
           /\ UNCHANGED auxVars
           /\ \E phase \in {"before_open", "truncated", "written"} :
                 file' = interrupted_save(file, st.u, phase)
           /\ crash' = [down |-> TRUE, count |-> crash.count + 1,
                        before |-> usage_data, after |-> st.u]
           /\ usage_data' = st.u
           /\ requests' = st.rl
    /\ req' = [q \in Req |-> IdleReq]
    /\ UNCHANGED <<metrics, now, resets, disk, fleet, history>>

\* The gateway is started again: RPCOptimizer.__init__ builds a new
\* QuotaManager, which loads the file, and fresh limiter and metrics.
Restart ==
    /\ crash.down
    /\ crash' = [crash EXCEPT !.down = FALSE]
    /\ usage_data' = load_data(file)
    /\ requests' = [p \in Names |-> <<>>]
    /\ metrics' = [p \in Names |-> <<>>]
    /\ UNCHANGED <<file, now, resets, disk, req, fleet, history, auxVars>>

CrashNext ==
    \/ ~crash.down /\ \E r \in Req : Start(r)
    \/ ~crash.down /\ \E r \in Req : DispatchSucceeds(r)
    \/ ~crash.down /\ Tick
    \/ \E r \in Req : CrashInSave(r)
    \/ Restart

CrashSpec == Init /\ [][CrashNext]_vars

\* ------------------------------------------------- the parser on any payload

\* The payloads a client can send, member by member: absent ("MISSING") or
\* present with a value of one of the JSON types.
AllPayloads ==
    [jsonrpc : {"2.0", "1.0", "MISSING"},
     method : {"eth_blockNumber", "", " ", "NONSTRING", "MISSING"},
     params : {"LIST", "DICT", "NULL", "STRING", "MISSING"},
     id : {[kind |-> k, v |-> 1] :
              k \in {"int", "float", "str", "bool", "null"}}
          \cup {MissingId}]

ParserInit ==
    /\ usage_data = EmptyMap
    /\ file = [exists |-> FALSE, valid |-> TRUE, data |-> EmptyMap]
    /\ disk = "ok"
    /\ requests = [p \in Names |-> <<>>]
    /\ metrics = [p \in Names |-> <<>>]
    /\ now = 0
    /\ resets = 0
    /\ req = [r \in Req |-> IdleReq]
    /\ fleet = providers
    /\ history = <<>>
    /\ crash = NoCrash
    /\ LegacyInit
    /\ CacheInit
    /\ WorkerInit
    /\ arg \in AllPayloads

\* parser.parse_rpc_request(payload) is called on the payload.
Parse ==
    /\ out = NoOut
    /\ out' = [kind |-> "parsed", result |-> parse_rpc_request(arg)]
    /\ UNCHANGED <<routerVars, crash, stores, calls, called, arg, cacheVars,
                 workerVars>>

ParserNext == Parse

ParserSpec == ParserInit /\ [][ParserNext]_vars

\* ------------------------------------------------- score cache

MaxReads == 3

\* ScoreCache(ttl_seconds=1).
ttl_seconds == 1

\* The (scores_df, weights) pairs a caller may store.
CacheValues == {"v1", "v2"}

\* get_cached_scores that treats an entry as expired once its age reaches
\* the ttl.
get_cached_scores_early(c, method, t) ==
    IF method \notin DOMAIN c
    THEN [value |-> "None", cache |-> c, hit |-> FALSE]
    ELSE IF t - c[method].timestamp >= ttl_seconds
    THEN [value |-> "None", hit |-> FALSE,
          cache |-> [m \in DOMAIN c \ {method} |-> c[m]]]
    ELSE [value |-> c[method].value, cache |-> c, hit |-> TRUE]

\* get_cached_scores that counts an expired entry as a hit.
get_cached_scores_expired_hit(c, method, t) ==
    IF method \notin DOMAIN c
    THEN [value |-> "None", cache |-> c, hit |-> FALSE]
    ELSE IF t - c[method].timestamp > ttl_seconds
    THEN [value |-> "None", hit |-> TRUE,
          cache |-> [m \in DOMAIN c \ {method} |-> c[m]]]
    ELSE [value |-> c[method].value, cache |-> c, hit |-> TRUE]

\* ScoreCache.get_cached_scores at time t: the value returned, the cache
\* after, and whether the call is counted as a hit (else as a miss).
get_cached_scores(c, method, t) ==
    IF method \notin DOMAIN c
    THEN [value |-> "None", cache |-> c, hit |-> FALSE]
    ELSE IF t - c[method].timestamp > ttl_seconds
    THEN [value |-> "None", hit |-> FALSE,
          cache |-> [m \in DOMAIN c \ {method} |-> c[m]]]
    ELSE [value |-> c[method].value, cache |-> c, hit |-> TRUE]

\* ScoreCache.set_cached_scores at time t: the cache after.
set_cached_scores(c, method, value, t) ==
    [m \in DOMAIN c \cup {method} |->
        IF m = method THEN [value |-> value, timestamp |-> t] ELSE c[m]]

\* ScoreCache.invalidate(method), "ALL" standing for method=None.
invalidate(c, method) ==
    IF method = "ALL" THEN << >>
    ELSE [m \in DOMAIN c \ {method} |-> c[m]]

\* A task calls get_cached_scores(method). The body runs under the lock and
\* has no await, so it is one step of the event loop.
CacheGet(method) ==
    /\ reads < MaxReads
    /\ LET res == get_cached_scores(cache, method, now)
       IN  /\ cache' = res.cache
           /\ hits' = IF res.hit THEN hits + 1 ELSE hits
           /\ misses' = IF res.hit THEN misses ELSE misses + 1
           /\ out' = [kind |-> "get", method |-> method, value |-> res.value]
    /\ reads' = reads + 1
    /\ UNCHANGED <<stored, now, nonCacheVars>>

\* A task calls set_cached_scores(method, scores_df, weights).
CacheSet(method, value) ==
    /\ cache' = set_cached_scores(cache, method, value, now)
    /\ stored' = [stored EXCEPT ![method] = value]
    /\ out' = [kind |-> "set", method |-> method, value |-> value]
    /\ UNCHANGED <<hits, misses, reads, now, nonCacheVars>>

\* A task calls invalidate(method) or invalidate().
CacheInvalidate(method) ==
    /\ cache' = invalidate(cache, method)
    /\ out' = [kind |-> "invalidate", method |-> method, value |-> "None"]
    /\ UNCHANGED <<hits, misses, reads, stored, now, nonCacheVars>>

\* reset_stats().
CacheResetStats ==
    /\ hits' = 0
    /\ misses' = 0
    /\ reads' = 0
    /\ out' = [kind |-> "reset_stats", method |-> "ALL", value |-> "None"]
    /\ UNCHANGED <<cache, stored, now, nonCacheVars>>

CacheNext ==
    \/ \E method \in LegacyMethods : CacheGet(method)
    \/ \E method \in LegacyMethods, value \in CacheValues :
           CacheSet(method, value)
    \/ \E method \in LegacyMethods \cup {"ALL"} : CacheInvalidate(method)
    \/ CacheResetStats
    \/ Tick

CacheSpec == Init /\ [][CacheNext]_vars

\* ------------------------------------------------- legacy Flask application

MaxCalls == 4

\* MetricsStore.get_request_count.
get_request_count(store, provider, method) ==
    IF <<provider, method>> \in DOMAIN store.request_counts
    THEN store.request_counts[<<provider, method>>] ELSE 0

\* add_record that appends the row without counting the call.
store_add_record_uncounted(store, provider, method, latency_ms, price) ==
    [store EXCEPT !.df = Append(@,
        [Provider |-> provider, Method |-> method, Latency |-> latency_ms,
         Price |-> price, Eligible |-> TRUE,
         RequestCount |-> get_request_count(store, provider, method)])]

\* MetricsStore.add_record: the count of the pair goes up by one and one row
\* carrying the new count is appended to df.
store_add_record(store, provider, method, latency_ms, price) ==
    LET n == get_request_count(store, provider, method) + 1
        key == <<provider, method>>
    IN  [df |-> Append(store.df,
                  [Provider |-> provider, Method |-> method,
                   Latency |-> latency_ms, Price |-> price,
                   Eligible |-> TRUE, RequestCount |-> n]),
         request_counts |->
             [k \in DOMAIN store.request_counts \cup {key} |->
                 IF k = key THEN n ELSE store.request_counts[k]]]

\* MetricsStore.get_all_records(method): a copy of the rows of the method.
store_get_all_records(store, method) ==
    SelectSeq(store.df, LAMBDA row : row.Method = method)

\* core/config.py: ALCHEMY_COMPUTE_UNITS and QUICKNODE_CREDITS.get(method, 20)
\* for the two methods.
ALCHEMY_COMPUTE_UNITS == [eth_blockNumber |-> 10, eth_call |-> 26]

QUICKNODE_CREDITS == [eth_blockNumber |-> 20, eth_call |-> 20]

\* core/config.py PRICING_CONFIG, prices in 10^-9 USD.
PRICING_CONFIG ==
    [chainstack |-> [threshold |-> 20000000, high_volume_price |-> 15000,
                     low_volume_price |-> 2450],
     alchemy |-> [threshold |-> 300000000, high_volume_price |-> 400,
                  low_volume_price |-> 450],
     quicknode |-> [threshold |-> 80000000, high_volume_price |-> 620,
                    low_volume_price |-> 525]]

\* Provider.price_per_call of data/providers.py, per subclass.
price_per_call(store, name, method) ==
    LET total_requests == get_request_count(store, name, method)
    IN  IF name = "Chainstack"
        THEN IF total_requests > PRICING_CONFIG.chainstack.threshold
             THEN PRICING_CONFIG.chainstack.high_volume_price
             ELSE PRICING_CONFIG.chainstack.low_volume_price
        ELSE IF name = "Alchemy"
        THEN IF total_requests * ALCHEMY_COMPUTE_UNITS[method]
                    > PRICING_CONFIG.alchemy.threshold
             THEN PRICING_CONFIG.alchemy.high_volume_price
                      * ALCHEMY_COMPUTE_UNITS[method]
             ELSE PRICING_CONFIG.alchemy.low_volume_price
                      * ALCHEMY_COMPUTE_UNITS[method]
        ELSE IF name = "QuickNode"
        THEN IF total_requests * QUICKNODE_CREDITS[method]
                    > PRICING_CONFIG.quicknode.threshold
             THEN PRICING_CONFIG.quicknode.high_volume_price
                      * QUICKNODE_CREDITS[method]
             ELSE PRICING_CONFIG.quicknode.low_volume_price
                      * QUICKNODE_CREDITS[method]
        ELSE 0

LegacyLatencies == {100, 200}

\* The number of add_record calls made so far, over all stores.
RECURSIVE SumCalls(_)
SumCalls(ks) ==
    IF ks = {} THEN 0
    ELSE LET k == CHOOSE x \in ks : TRUE IN calls[k] + SumCalls(ks \ {k})

\* Provider.call of a real provider: the HTTP POST to base_url, then the
\* record in the provider's own store (the upstream error, if any, is put in
\* the result and the record is added all the same).
ProviderCall(sts, name, method, latency_ms) ==
    [sts EXCEPT ![name] = store_add_record(@, name, method, latency_ms,
                              price_per_call(@, name, method))]

\* POST /rpc/<provider_name>: provider.call(payload, all_providers). The
\* virtual Best provider answers -32601 without any upstream call or record.
RpcProvider(name, method) ==
    /\ SumCalls(Keys) < MaxCalls
    /\ IF name = "Best"
       THEN /\ out' = [kind |-> "rpc_provider", provider |-> name,
                       code |-> -32601]
            /\ UNCHANGED <<stores, calls, called>>
       ELSE \E latency_ms \in LegacyLatencies :
            /\ stores' = ProviderCall(stores, name, method, latency_ms)
            /\ calls' = [calls EXCEPT ![<<name, method>>] = @ + 1]
            /\ called' = called \cup {name}
            /\ out' = [kind |-> "rpc_provider", provider |-> name, code |-> 0]
    /\ UNCHANGED nonLegacyVars

\* MetricsStore.get_latest(method): the last row of each provider that has
\* rows for the method, in order of first appearance.
get_latest(store, method) ==
    LET df_method == SelectSeq(store.df, LAMBDA row : row.Method = method)
        first(i) == \A j \in 1..(i - 1) :
                        df_method[j].Provider # df_method[i].Provider
        last(i) == \A j \in (i + 1)..Len(df_method) :
                       df_method[j].Provider # df_method[i].Provider
        lastOf(i) == CHOOSE j \in i..Len(df_method) :
                         /\ df_method[j].Provider = df_method[i].Provider
                         /\ last(j)
        firsts == SelectSeq([i \in 1..Len(df_method) |-> i], first)
    IN  [k \in 1..Len(firsts) |-> df_method[lastOf(firsts[k])]]

\* pd.concat of one frame per provider of the list, in list order.
RECURSIVE Concat(_, _)
Concat(frames, plist) ==
    IF plist = <<>> THEN <<>>
    ELSE frames[Head(plist)] \o Concat(frames, Tail(plist))

\* data/metrics.py get_latest_provider_snapshot.
get_latest_provider_snapshot(sts, plist, method) ==
    Concat([n \in LegacyNames |-> get_latest(sts[n], method)], plist)

\* data/metrics.py get_all_historical_data.
get_all_historical_data(sts, plist, method) ==
    Concat([n \in LegacyNames |-> store_get_all_records(sts[n], method)],
           plist)

\* The providers that have a row in a frame.
ProvidersIn(df) == {df[i].Provider : i \in 1..Len(df)}

\* Exact fractions for the normalized values and the scores.
RECURSIVE GCD(_, _)
GCD(a, b) == IF b = 0 THEN a ELSE GCD(b, a % b)

Frac(n, d) == [n |-> n \div GCD(n, d), d |-> d \div GCD(n, d)]

FracLeq(a, b) == a.n * b.d <= b.n * a.d

FracMin(a, b) == IF FracLeq(a, b) THEN a ELSE b

FracMax(a, b) == IF FracLeq(a, b) THEN b ELSE a

One == [n |-> 1, d |-> 1]

SeqMin(col) == CHOOSE x \in {col[i] : i \in 1..Len(col)} :
                   \A i \in 1..Len(col) : x <= col[i]

SeqMax(col) == CHOOSE x \in {col[i] : i \in 1..Len(col)} :
                   \A i \in 1..Len(col) : x >= col[i]

\* strategy/normalizer.py normalize: 1 - (x - min)/(max - min), and 1.0 for
\* every row of a constant column.
normalize(col) ==
    IF col = <<>> THEN <<>>
    ELSE IF SeqMax(col) = SeqMin(col)
    THEN [i \in 1..Len(col) |-> One]
    ELSE [i \in 1..Len(col) |->
             Frac(SeqMax(col) - col[i], SeqMax(col) - SeqMin(col))]

\* A column all of whose values are equal: its standard deviation is 0.
Constant(col) == \A i, j \in 1..Len(col) : col[i] = col[j]

\* compute_critic_weights that gives equal weights whenever a column is
\* constant.
compute_critic_weights_equal(Lnorm, Pnorm) ==
    IF Len(Lnorm) < 2 \/ Constant(Lnorm) \/ Constant(Pnorm)
    THEN "equal" ELSE "mixed"

\* strategy/critic_weights.py compute_critic_weights on the two normalized
\* columns. The result is named by its kind: "equal" is (1/2, 1/2),
\* "latency" is (1, 0), "price" is (0, 1); "mixed" is C/sum(C) with both
\* columns varying, weights between 0 and 1 fixed by the standard deviations
\* and the correlation, which the model does not compute.
compute_critic_weights(Lnorm, Pnorm) ==
    IF Len(Lnorm) < 2 THEN "equal"
    ELSE IF Constant(Lnorm) /\ Constant(Pnorm) THEN "equal"
    ELSE IF Constant(Pnorm) THEN "latency"
    ELSE IF Constant(Lnorm) THEN "price"
    ELSE "mixed"

\* Lnorm * w0 + Pnorm * w1 as the interval the value lies in: a point when
\* the weights are known exactly.
Score(l, p, weights) ==
    LET half == Frac(l.n * p.d + p.n * l.d, 2 * l.d * p.d)
    IN  IF weights = "equal" THEN [lo |-> half, hi |-> half]
        ELSE IF weights = "latency" THEN [lo |-> l, hi |-> l]
        ELSE IF weights = "price" THEN [lo |-> p, hi |-> p]
        ELSE [lo |-> FracMin(l, p), hi |-> FracMax(l, p)]

Column(df, c) == [i \in 1..Len(df) |-> df[i][c]]

\* The latest snapshot with its Lnorm, Pnorm and Score columns.
Scored(latest_df, weights) ==
    LET Lnorm == normalize(Column(latest_df, "Latency"))
        Pnorm == normalize(Column(latest_df, "Price"))
    IN  [i \in 1..Len(latest_df) |->
            [Provider |-> latest_df[i].Provider,
             Latency |-> latest_df[i].Latency,
             Price |-> latest_df[i].Price,
             Eligible |-> latest_df[i].Eligible,
             Lnorm |-> Lnorm[i], Pnorm |-> Pnorm[i],
             Score |-> Score(Lnorm[i], Pnorm[i], weights)]]

\* strategy/scoring_engine.py calculate_dynamic_scores: weights from the
\* historical rows of every provider of the list, applied to the latest row
\* of every provider of the list.
calculate_dynamic_scores(sts, plist, method) ==
    LET historical_df == get_all_historical_data(sts, plist, method)
        weights == IF historical_df = <<>> THEN "equal"
                   ELSE compute_critic_weights(
                            normalize(Column(historical_df, "Latency")),
                            normalize(Column(historical_df, "Price")))
        latest_df == get_latest_provider_snapshot(sts, plist, method)
    IN  [scored_df |-> Scored(latest_df, weights), weights |-> weights,
         historical |-> ProvidersIn(historical_df)]

\* The rows df.loc[df["Score"].idxmax()] can be: the first row of maximal
\* score when the scores are known, any row whose score may be the largest
\* when they are not.
IdxMax(df) ==
    IF \A i \in 1..Len(df) : df[i].Score.lo = df[i].Score.hi
    THEN {CHOOSE i \in 1..Len(df) :
              /\ \A j \in 1..Len(df) : FracLeq(df[j].Score.hi, df[i].Score.hi)
              /\ \A j \in 1..(i - 1) :
                     ~FracLeq(df[i].Score.hi, df[j].Score.hi)}
    ELSE {i \in 1..Len(df) :
              \A j \in 1..Len(df) : FracLeq(df[j].Score.lo, df[i].Score.hi)}

\* eligible_df[eligible_df["Provider"].str.lower() != "best"].
NotBest(df) == SelectSeq(df, LAMBDA row : row.Provider # "Best")

\* MethodWorker.run for one queued payload of its method: score, select
\* the best real provider, call it, record the call under Best too.
RunBest(method) ==
    /\ SumCalls(Keys) < MaxCalls
    /\ LET latest_df == get_latest_provider_snapshot(stores, load_providers,
                                                     method)
           res == calculate_dynamic_scores(stores, load_providers, method)
           eligible0 == SelectSeq(res.scored_df, LAMBDA row : row.Eligible)
           eligible_df == NotBest(IF eligible0 = <<>> THEN res.scored_df
                                  ELSE eligible0)
           seen == [kind |-> "rpc_best", historical |-> res.historical,
                    weights |-> res.weights,
                    latest |-> ProvidersIn(latest_df)]
       IN  IF latest_df = <<>> \/ eligible_df = <<>>
           THEN /\ out' = [seen EXCEPT !.kind = "rpc_best_error"]
                /\ UNCHANGED <<stores, calls, called>>
           ELSE \E i \in IdxMax(eligible_df), latency_ms \in LegacyLatencies :
                LET best_provider_name == eligible_df[i].Provider
                    price_usd == price_per_call(stores[best_provider_name],
                                                best_provider_name, method)
                    sts1 == ProviderCall(stores, best_provider_name, method,
                                         latency_ms)
                IN  /\ stores' = [sts1 EXCEPT !["Best"] =
                                     store_add_record(@, "Best", method,
                                                      latency_ms, price_usd)]
                    /\ calls' = [calls EXCEPT
                                    ![<<best_provider_name, method>>] = @ + 1,
                                    ![<<"Best", method>>] = @ + 1]
                    /\ called' = called \cup {best_provider_name}
                    /\ out' = seen

\* POST /rpc/best with no other request under way: the handler submits the
\* payload to the method's worker, which runs it, and returns the result.
RpcBest(method) ==
    /\ RunBest(method)
    /\ UNCHANGED nonLegacyVars

\* GET /records: every row of every provider of the list.
Records(method) ==
    /\ out' = [kind |-> "records",
               records |-> ProvidersIn(
                   get_all_historical_data(stores, load_providers, method))]
    /\ UNCHANGED <<stores, calls, called, nonLegacyVars>>

\* GET /analytics: one summary per row of the latest snapshot.
Analytics(method) ==
    /\ out' = [kind |-> "analytics",
               providers |-> ProvidersIn(
                   get_latest_provider_snapshot(stores, load_providers,
                                                method))]
    /\ UNCHANGED <<stores, calls, called, nonLegacyVars>>

\* RPCOptimizer._initialize_providers: the providers probed on a cold start.
ColdStartProbes(plist) == SelectSeq(plist, LAMBDA n : n # "Best")

\* filter_dataframe that only looks at the Eligible column.
filter_dataframe_eligible_only(df, allow_fallback) ==
    LET eligible_df == SelectSeq(df, LAMBDA row : row.Eligible)
    IN  IF eligible_df = <<>> /\ allow_fallback THEN df ELSE eligible_df

\* EligibilityFilter.filter_dataframe.
filter_dataframe(df, allow_fallback) ==
    IF df = <<>> THEN df
    ELSE LET eligible_df ==
                 SelectSeq(df, LAMBDA row :
                                   row.Eligible /\ row.Provider # "Best")
         IN  IF eligible_df = <<>> /\ allow_fallback
             THEN SelectSeq(df, LAMBDA row : row.Provider # "Best")
             ELSE eligible_df

\* The stores after the records of a cold start: one per probe that was
\* answered, in list order.
RECURSIVE RecordProbes(_, _, _, _, _)
RecordProbes(sts, plist, answered, method, latency) ==
    IF plist = <<>> THEN sts
    ELSE RecordProbes(
             IF Head(plist) \in answered
             THEN ProviderCall(sts, Head(plist), method, latency[Head(plist)])
             ELSE sts,
             Tail(plist), answered, method, latency)

\* strategy/optimizer.py RPCOptimizer.optimize_request for a valid payload:
\* with no metrics for the method every real provider is probed; otherwise
\* the providers are scored, filtered, one is selected (the best, or any when
\* exploring) and the request is sent to it.
OptimizeScored(method) ==
    /\ SumCalls(Keys) < MaxCalls
    /\ LET latest_df == get_latest_provider_snapshot(stores, load_providers,
                                                     method)
           res == calculate_dynamic_scores(stores, load_providers, method)
           eligible_df == filter_dataframe(res.scored_df, TRUE)
           seen == [kind |-> "optimize", historical |-> res.historical,
                    weights |-> res.weights,
                    latest |-> ProvidersIn(res.scored_df)]
       IN  IF latest_df = <<>>
           THEN \E answered \in SUBSET LegacyNames,
                   latency \in [LegacyNames -> LegacyLatencies] :
                LET probes == ColdStartProbes(load_providers)
                    sent == {probes[i] : i \in 1..Len(probes)}
                IN  /\ answered \subseteq sent
                    /\ \A n \in LegacyNames \ answered : latency[n] = 100
                    /\ stores' = RecordProbes(stores, probes, answered,
                                              method, latency)
                    /\ calls' = [k \in Keys |->
                                    IF k[1] \in answered /\ k[2] = method
                                    THEN calls[k] + 1 ELSE calls[k]]
                    /\ called' = called \cup sent
                    /\ out' = [kind |-> "cold_start", answered |-> answered]
           ELSE IF eligible_df = <<>>
           THEN /\ out' = [seen EXCEPT !.kind = "no_providers"]
                /\ UNCHANGED <<stores, calls, called>>
           ELSE \E explore \in BOOLEAN :
                \E i \in (IF explore THEN 1..Len(eligible_df)
                          ELSE IdxMax(eligible_df)),
                   answered \in BOOLEAN, latency_ms \in LegacyLatencies :
                LET best_provider_name == eligible_df[i].Provider
                IN  /\ called' = called \cup {best_provider_name}
                    /\ out' = seen
                    /\ IF answered
                       THEN /\ stores' = [stores EXCEPT
                                  ![best_provider_name] = store_add_record(
                                      @, best_provider_name, method,
                                      latency_ms, eligible_df[i].Price)]
                            /\ calls' = [calls EXCEPT
                                  ![<<best_provider_name, method>>] = @ + 1]
                       ELSE /\ latency_ms = 100
                            /\ UNCHANGED <<stores, calls>>
    /\ UNCHANGED nonLegacyVars

\* The store of provider n after one add_record per row of rows.
RECURSIVE MakeStore(_, _, _)
MakeStore(n, method, rows) ==
    IF rows = <<>> THEN EmptyStore
    ELSE store_add_record(
             MakeStore(n, method, SubSeq(rows, 1, Len(rows) - 1)),
             n, method, rows[Len(rows)].Latency, rows[Len(rows)].Price)

MaxRows == 2

\* The records one provider may hold for the method, oldest first.
Histories ==
    UNION {[1..k -> [Latency : LegacyLatencies, Price : {2450, 4500}]] :
               k \in 0..MaxRows}

\* Stores holding any records for eth_blockNumber.
CriticInit ==
    /\ usage_data = EmptyMap
    /\ file = [exists |-> FALSE, valid |-> TRUE, data |-> EmptyMap]
    /\ disk = "ok"
    /\ requests = [p \in Names |-> <<>>]
    /\ metrics = [p \in Names |-> <<>>]
    /\ now = 0
    /\ resets = 0
    /\ req = [r \in Req |-> IdleReq]
    /\ fleet = providers
    /\ history = <<>>
    /\ crash = NoCrash
    /\ arg = NoPayload
    /\ CacheInit
    /\ WorkerInit
    /\ \E h \in [{"Chainstack", "Alchemy"} -> Histories] :
           stores = [n \in LegacyNames |->
                        IF n = "Best" THEN EmptyStore
                        ELSE MakeStore(n, "eth_blockNumber", h[n])]
    /\ calls = [k \in Keys |-> 0]
    /\ called = {}
    /\ out = NoOut

\* calculate_dynamic_scores(providers, "eth_blockNumber") is called.
ScoreProviders ==
    /\ out = NoOut
    /\ LET res == calculate_dynamic_scores(stores, load_providers,
                                           "eth_blockNumber")
       IN  out' = [kind |-> "scored", weights |-> res.weights,
                   scored_df |-> res.scored_df]
    /\ UNCHANGED <<stores, calls, called, nonLegacyVars>>

CriticNext == ScoreProviders

CriticSpec == CriticInit /\ [][CriticNext]_vars

LegacyNext ==
    \/ \E name \in LegacyNames, method \in LegacyMethods :
           RpcProvider(name, method)
    \/ \E method \in LegacyMethods : OptimizeScored(method)
    \/ \E method \in LegacyMethods : RpcBest(method)
    \/ \E method \in LegacyMethods : Records(method)
    \/ \E method \in LegacyMethods : Analytics(method)

LegacySpec == Init /\ [][LegacyNext]_vars

\* ------------------------------------------------- the limiter on its own

\* Largest number of is_allowed calls in a row that are denied.
MaxDenials == 3

\* The limit_rps arguments is_allowed is called with.
LimitArgs == {-1, 0, 1, 2}

\* The providers is_allowed is called for.
LimiterNames == {"P1", "P2"}

\* A caller invokes rate_limiter.is_allowed(p, limit) when time.time() reads
\* now. out keeps the call, the deque it found, and for a run of denials of
\* the same provider their number and the deque before the first of them.
IsAllowed(p, limit) ==
    LET res == is_allowed(requests[p], limit, now)
        again == out.kind = "is_allowed" /\ out.provider = p /\ ~out.allowed
        denials == IF res.allowed THEN 0
                   ELSE IF again THEN out.denials + 1 ELSE 1
    IN  /\ denials <= MaxDenials
        /\ requests' = [requests EXCEPT ![p] = res.q]
        /\ out' = [kind |-> "is_allowed", provider |-> p, limit |-> limit,
                   allowed |-> res.allowed, t |-> now,
                   before |-> requests[p], denials |-> denials,
                   first |-> IF ~res.allowed /\ again THEN out.first
                             ELSE requests[p]]
        /\ UNCHANGED <<usage_data, file, disk, metrics, now, resets, req,
                     fleet, history, crash, stores, calls, called, arg,
                     cacheVars, workerVars>>

\* The system clock is set back (a clock step by NTP or by the operator):
\* time.time() is the wall clock, so its next reading is below the last one.
ClockSetBack ==
    /\ now > 0
    /\ \E t \in 0..(now - 1) : now' = t
    /\ UNCHANGED <<usage_data, file, requests, metrics, resets, disk, req,
                 fleet, history, sideVars>>

LimiterNext ==
    \/ \E p \in LimiterNames, limit \in LimitArgs : IsAllowed(p, limit)
    \/ Tick
    \/ ClockSetBack

LimiterSpec == Init /\ [][LimiterNext]_vars

\* ------------------------------------------------- a burst, then a pause

\* The sequential client of the lifecycle demo on the three-provider gateway:
\* it sends requests one after the other, faster than the limits allow, then
\* waits for the windows to empty and sends again.
RecoverySpec == Init /\ [][ScenarioNext]_vars

\* ------------------------------------------------- a reset while in flight

\* An operator calls reset_usage("P1") at any moment while requests are
\* served; no task is cancelled.
ResetNext ==
    \/ \E r \in Req : Start(r)
    \/ \E r \in Req : DispatchSucceeds(r)
    \/ \E r \in Req : DispatchFails(r)
    \/ ResetUsage("P1")
    \/ Tick

ResetSpec == Init /\ [][ResetNext]_vars

\* ------------------------------------------------- what the upstream replies

\* The members an upstream's JSON object can carry: a result, a JSON-RPC
\* error, or neither.
ReplyMembers == {"result", "error", "neither"}

\* The id an upstream's JSON object can carry: the id of the request it was
\* sent, some other id, or none (raw_response.get("id") is None).
ReplyIds(request_id) ==
    {request_id, [kind |-> "int", v |-> 99], [kind |-> "null", v |-> 0]}

\* A reply with a JSON-RPC error member handled as a failed dispatch.
DispatchReplies_error_fails(r) ==
    /\ req[r].state = "inflight"
    /\ \E actual_latency \in Latencies, member \in ReplyMembers,
          id \in ReplyIds(req[r].payload.id) :
        LET rq == req[r]
            p == rq.providers_to_try[rq.idx]
            raw_response == [id |-> id, member |-> member]
            u1 == decrement(usage_data, p, rq.estimated_cost)
            f1 == save_data(file, u1, SaveOutcome(disk))
            st == TryProviders(rq.providers_to_try, rq.method, now,
                      SaveOutcome(disk),
                      LoopState(rq.idx + 1, u1, f1,
                                [rq.trace EXCEPT ![p] = "failed"], rq.at))
        IN  IF member = "result"
            THEN /\ metrics' = add_record(metrics, p, rq.method, actual_latency)
                 /\ req' = [req EXCEPT ![r] = [rq EXCEPT
                               !.state = "done",
                               !.trace[p] = "ok",
                               !.response = build_response(raw_response, p)]]
                 /\ UNCHANGED <<usage_data, file, requests>>
            ELSE /\ metrics' = add_record(metrics, p, rq.method, PenaltyLatency)
                 /\ req' = [req EXCEPT ![r] =
                               AfterLoop([rq EXCEPT !.last_error = "rpc_error"],
                                         st, rq.payload.id)]
                 /\ usage_data' = st.u
                 /\ file' = st.f
                 /\ requests' = st.rl
    /\ UNCHANGED <<now, resets, disk, fleet, history, sideVars>>

\* The await of send_request returns a decoded JSON object, whatever it
\* holds: record the metrics and return build_response of it.
DispatchReplies(r) ==
    /\ req[r].state = "inflight"
    /\ \E actual_latency \in Latencies, member \in ReplyMembers,
          id \in ReplyIds(req[r].payload.id) :
        LET rq == req[r]
            p == rq.providers_to_try[rq.idx]
            raw_response == [id |-> id, member |-> member]
        IN  /\ metrics' = add_record(metrics, p, rq.method, actual_latency)
            /\ req' = [req EXCEPT ![r] = [rq EXCEPT
                          !.state = "done",
                          !.trace[p] = "ok",
                          !.response = build_response(raw_response, p)]]
            /\ UNCHANGED <<usage_data, file, requests>>
    /\ UNCHANGED <<now, resets, disk, fleet, history, sideVars>>

UpstreamNext ==
    \/ \E r \in Req : Start(r)
    \/ \E r \in Req : DispatchReplies(r)
    \/ \E r \in Req : DispatchFails(r)
    \/ Tick

UpstreamSpec == Init /\ [][UpstreamNext]_vars

\* ------------------------------------------------- price of a routed call

\* The request counts a provider's store starts from: a new provider, and one
\* that is one or two calls short of the volume where its pricing tier
\* changes (the rows of those earlier calls are left out of df).
StartCounts(name) ==
    IF name = "Chainstack"
    THEN {0, PRICING_CONFIG.chainstack.threshold - 2,
          PRICING_CONFIG.chainstack.threshold - 1}
    ELSE {0, PRICING_CONFIG.alchemy.threshold \div 10 - 2,
          PRICING_CONFIG.alchemy.threshold \div 10 - 1}

\* The request_counts of a store that served n eth_blockNumber calls.
CountsAfter(name, n) ==
    IF n = 0 THEN << >>
    ELSE [k \in {<<name, "eth_blockNumber">>} |-> n]

RECURSIVE TotalUnits(_, _, _)
\* sum(count * method_costs.get(m, 0) for (provider, m), count in all_counts)
TotalUnits(store, name, ms) ==
    IF ms = {} THEN 0
    ELSE LET m == CHOOSE x \in ms : TRUE
         IN  get_request_count(store, name, m) * ALCHEMY_COMPUTE_UNITS[m]
             + TotalUnits(store, name, ms \ {m})

\* ChainstackProvider.price_per_call and AlchemyProvider.price_per_call of
\* providers/registry.py, read off the provider's own store.
registry_price_per_call(store, name, method) ==
    IF name = "Chainstack"
    THEN LET total_requests == get_request_count(store, name, method) + 1
         IN  IF total_requests > PRICING_CONFIG.chainstack.threshold
             THEN PRICING_CONFIG.chainstack.high_volume_price
             ELSE PRICING_CONFIG.chainstack.low_volume_price
    ELSE LET compute_units == ALCHEMY_COMPUTE_UNITS[method]
             total_cu == TotalUnits(store, name, LegacyMethods) + compute_units
         IN  IF total_cu > PRICING_CONFIG.alchemy.threshold
             THEN PRICING_CONFIG.alchemy.high_volume_price * compute_units
             ELSE PRICING_CONFIG.alchemy.low_volume_price * compute_units

\* RPCOptimizer._record_metrics
record_metrics(store, name, method, latency) ==
    store_add_record(store, name, method, latency,
                     registry_price_per_call(store, name, method))

PriceInit ==
    /\ usage_data = EmptyMap
    /\ file = [exists |-> FALSE, valid |-> TRUE, data |-> EmptyMap]
    /\ disk = "ok"
    /\ requests = [p \in Names |-> <<>>]
    /\ metrics = [p \in Names |-> <<>>]
    /\ now = 0
    /\ resets = 0
    /\ req = [r \in Req |-> IdleReq]
    /\ fleet = providers
    /\ history = <<>>
    /\ crash = NoCrash
    /\ arg = NoPayload
    /\ CacheInit
    /\ WorkerInit
    /\ \E c \in StartCounts("Chainstack"), a \in StartCounts("Alchemy") :
           stores = [n \in LegacyNames |->
                        IF n = "Chainstack"
                        THEN [df |-> <<>>, request_counts |-> CountsAfter(n, c)]
                        ELSE IF n = "Alchemy"
                        THEN [df |-> <<>>, request_counts |-> CountsAfter(n, a)]
                        ELSE EmptyStore]
    /\ calls = [k \in Keys |-> 0]
    /\ called = {}
    /\ out = NoOut

\* optimize_request's success path for the selected provider: the metrics
\* are recorded, then the response is built with
\* price_usd=provider.price_per_call(method).
RouterSuccess(name, method) ==
    /\ SumCalls(Keys) < MaxCalls
    /\ \E actual_latency \in LegacyLatencies :
        LET store == record_metrics(stores[name], name, method, actual_latency)
        IN  /\ stores' = [stores EXCEPT ![name] = store]
            /\ out' = [kind |-> "router_success", provider |-> name,
                       method |-> method, latency_ms |-> actual_latency,
                       price_usd |-> registry_price_per_call(store, name,
                                                             method)]
    /\ calls' = [calls EXCEPT ![<<name, method>>] = @ + 1]
    /\ called' = called \cup {name}
    /\ UNCHANGED nonLegacyVars

\* optimize_request's except branch for a provider whose dispatch raised: the
\* penalty is recorded and the loop goes on.
RouterFailure(name, method) ==
    /\ SumCalls(Keys) < MaxCalls
    /\ stores' = [stores EXCEPT ![name] =
                     record_metrics(@, name, method, PenaltyLatency)]
    /\ out' = [kind |-> "router_failure", provider |-> name,
               method |-> method]
    /\ calls' = [calls EXCEPT ![<<name, method>>] = @ + 1]
    /\ called' = called \cup {name}
    /\ UNCHANGED nonLegacyVars

PriceNext ==
    \/ \E name \in {"Chainstack", "Alchemy"}, method \in LegacyMethods :
           RouterSuccess(name, method)
    \/ \E name \in {"Chainstack", "Alchemy"}, method \in LegacyMethods :
           RouterFailure(name, method)

PriceSpec == PriceInit /\ [][PriceNext]_vars

\* ------------------------------------------------- per-method workers

\* The handler threads whose payload waits on the queue of worker w.
Queued(w) == {workers[w].queue[i] : i \in 1..Len(workers[w].queue)}

\* The number of submits made so far.
Submitted == Cardinality({t \in Handlers : threads[t].ticket > 0})

\* rpc_best up to its call of get_or_create_worker: a handler thread of the
\* threaded server reads the method of the payload it was given.
RpcBestBegin(t, method) ==
    /\ threads[t].pc = "idle"
    /\ threads' = [threads EXCEPT ![t].pc = "check", ![t].method = method]
    /\ UNCHANGED <<method_workers, workers, nonWorkerVars>>

\* get_or_create_worker: if method not in method_workers.
WorkerCheck(t) ==
    /\ threads[t].pc = "check"
    /\ threads' = [threads EXCEPT ![t].pc =
                      IF threads[t].method \in DOMAIN method_workers
                      THEN "return" ELSE "construct"]
    /\ UNCHANGED <<method_workers, workers, nonWorkerVars>>

\* MethodWorker(method): a new queue and a new daemon thread, started.
WorkerConstruct(t) ==
    /\ threads[t].pc = "construct"
    /\ workers' = Append(workers, [method |-> threads[t].method,
                                   queue |-> <<>>, current |-> 0])
    /\ threads' = [threads EXCEPT ![t].pc = "assign",
                                  ![t].made = Len(workers) + 1]
    /\ UNCHANGED <<method_workers, nonWorkerVars>>

\* method_workers[method] = <the worker just constructed>.
WorkerAssign(t) ==
    /\ threads[t].pc = "assign"
    /\ method_workers' =
           [m \in DOMAIN method_workers \cup {threads[t].method} |->
               IF m = threads[t].method THEN threads[t].made
               ELSE method_workers[m]]
    /\ threads' = [threads EXCEPT ![t].pc = "return"]
    /\ UNCHANGED <<workers, nonWorkerVars>>

\* return method_workers[method].
WorkerReturn(t) ==
    /\ threads[t].pc = "return"
    /\ threads' = [threads EXCEPT ![t].pc = "submit",
                                  ![t].worker = method_workers[threads[t].method]]
    /\ UNCHANGED <<method_workers, workers, nonWorkerVars>>

\* MethodWorker.submit up to result_q.get(): the payload and a fresh result
\* queue are put on the worker's queue.
Submit(t) ==
    /\ threads[t].pc = "submit"
    /\ workers' = [workers EXCEPT ![threads[t].worker].queue = Append(@, t)]
    /\ threads' = [threads EXCEPT ![t].pc = "wait",
                                  ![t].ticket = Submitted + 1]
    /\ UNCHANGED <<method_workers, nonWorkerVars>>

\* MethodWorker.run: payload, result_q = self.queue.get().
WorkerTake(w) ==
    /\ workers[w].current = 0
    /\ workers[w].queue # <<>>
    /\ workers' = [workers EXCEPT ![w].current = Head(workers[w].queue),
                                  ![w].queue = Tail(@)]
    /\ UNCHANGED <<method_workers, threads, nonWorkerVars>>

\* MethodWorker.run for the payload taken: score, select, call, record, and
\* result_q.put(result) on every path. The worker's reads and writes of the
\* stores are taken as one step.
WorkerRun(w) ==
    /\ workers[w].current # 0
    /\ RunBest(workers[w].method)
    /\ threads' = [threads EXCEPT ![workers[w].current].results = @ + 1]
    /\ workers' = [workers EXCEPT ![w].current = 0]
    /\ UNCHANGED <<method_workers, routerVars, crash, arg, cacheVars>>

\* MethodWorker.submit: return result_q.get(), and rpc_best's jsonify.
Receive(t) ==
    /\ threads[t].pc = "wait"
    /\ threads[t].results > 0
    /\ threads' = [threads EXCEPT ![t].pc = "done"]
    /\ UNCHANGED <<method_workers, workers, nonWorkerVars>>

\* The application after each real provider was called once for
\* eth_blockNumber through /rpc/<provider_name>.
BestInit ==
    /\ usage_data = EmptyMap
    /\ file = [exists |-> FALSE, valid |-> TRUE, data |-> EmptyMap]
    /\ disk = "ok"
    /\ requests = [p \in Names |-> <<>>]
    /\ metrics = [p \in Names |-> <<>>]
    /\ now = 0
    /\ resets = 0
    /\ req = [r \in Req |-> IdleReq]
    /\ fleet = providers
    /\ history = <<>>
    /\ crash = NoCrash
    /\ arg = NoPayload
    /\ CacheInit
    /\ WorkerInit
    /\ \E l \in [{"Chainstack", "Alchemy"} -> LegacyLatencies] :
           stores = ProviderCall(
                        ProviderCall([n \in LegacyNames |-> EmptyStore],
                                     "Chainstack", "eth_blockNumber",
                                     l["Chainstack"]),
                        "Alchemy", "eth_blockNumber", l["Alchemy"])
    /\ calls = [k \in Keys |-> 0]
    /\ called = {}
    /\ out = NoOut

\* POST /rpc/best requests served by the threaded development server.
WorkerNext ==
    \/ \E t \in Handlers, method \in LegacyMethods : RpcBestBegin(t, method)
    \/ \E t \in Handlers : WorkerCheck(t)
    \/ \E t \in Handlers : WorkerConstruct(t)
    \/ \E t \in Handlers : WorkerAssign(t)
    \/ \E t \in Handlers : WorkerReturn(t)
    \/ \E t \in Handlers : Submit(t)
    \/ \E w \in 1..Len(workers) : WorkerTake(w)
    \/ \E w \in 1..Len(workers) : WorkerRun(w)
    \/ \E t \in Handlers : Receive(t)

WorkerSpec == BestInit /\ [][WorkerNext]_vars

\* ------------------------------------------------- upstream always answers

\* Every upstream call returns a reply or raises within its timeout, and no
\* task is cancelled.
LiveNext ==
    \/ \E r \in Req : Start(r)
    \/ \E r \in Req : DispatchSucceeds(r)
    \/ \E r \in Req : DispatchFails(r)
    \/ Tick

LiveSpec ==
    /\ Init
    /\ [][LiveNext]_vars
    /\ \A r \in Req : WF_vars(DispatchSucceeds(r) \/ DispatchFails(r))

\* ------------------------------------------------------------ claims

\* Bounds of the arguments try_reserve is probed with.
MaxCostArg == 3
MaxLimitArg == 4

Skipped == {"overquota", "limited", "refused", "failed"}

RECURSIVE UnitsUpTo(_, _, _)
\* The units tasks 1..n reserved on p in attempts whose trace is in S.
UnitsUpTo(n, p, S) ==
    IF n = 0 THEN 0
    ELSE UnitsUpTo(n - 1, p, S)
         + (IF req[n].trace[p] \in S THEN get_cost(p, req[n].method) ELSE 0)

\* C1: for every provider with limit_monthly > 0, after any interleaving of
\* check_allowance, try_reserve, decrement and reset_usage calls from empty
\* counters, 0 <= get_usage(p) <= limit_monthly(p).
C1_UsageWithinLimit ==
    \A p \in Names :
        limit_monthly(p) > 0 =>
            /\ 0 <= get_usage(usage_data, p)
            /\ get_usage(usage_data, p) <= limit_monthly(p)

\* A reservation on P1 was refused while another task holds one, and a
\* rollback and a reset have happened.
C1_Witness ==
    \E r1, r2 \in Req :
        /\ req[r1].trace["P1"] = "refused"
        /\ req[r2].trace["P1"] = "inflight"
        /\ req[r2].trace["P2"] = "failed"
        /\ get_usage(usage_data, "P1") = 2
        /\ resets = 1

\* C2: a success response names a priority-2 provider only if, in the same
\* request, every priority-1 provider was over its monthly quota, denied by
\* its rate limiter, refused its reservation or failed its dispatch.
C2_PaidOnlyAfterFree ==
    \A r \in Req :
        (/\ req[r].response.kind = "success"
         /\ priority(req[r].response.selected_provider) = 2)
        => \A p \in Names :
              (InFleet(p) /\ priority(p) = 1) =>
                  req[r].trace[p] \in {"overquota", "limited", "refused", "failed"}

\* A request served by the paid P3 after exploration put P2 first: P2
\* refused the reservation, P1's limiter denied.
C2_Witness ==
    \E r \in Req :
        /\ req[r].response.kind = "success"
        /\ req[r].response.selected_provider = "P3"
        /\ req[r].providers_to_try = <<"P2", "P1", "P3">>
        /\ req[r].trace["P2"] = "refused"
        /\ req[r].trace["P1"] = "limited"

\* C3: the response is the success response of the first candidate, in the
\* order tried, that passed its limiter, got its reservation and whose
\* dispatch succeeded; -32000 is returned only when every candidate was
\* skipped or failed.
C3_FirstServingCandidateWins ==
    \A r \in Req :
        LET rq == req[r]
            order == rq.providers_to_try
        IN  /\ (rq.response.kind = "error" /\ rq.response.code = -32000)
                => \A i \in 1..Len(order) : rq.trace[order[i]] \in Skipped
            /\ rq.response.kind = "success"
                => \E i \in 1..Len(order) :
                      /\ order[i] = rq.response.selected_provider
                      /\ rq.trace[order[i]] = "ok"
                      /\ \A j \in 1..(i - 1) : rq.trace[order[j]] \in Skipped
            /\ \A p \in Names :
                  rq.trace[p] = "ok"
                  => /\ rq.response.kind = "success"
                     /\ rq.response.selected_provider = p

\* A request whose first dispatch failed, whose second candidate was refused
\* and that the third candidate served.
C3_Witness ==
    \E r \in Req :
        /\ req[r].trace["P1"] = "failed"
        /\ req[r].trace["P2"] = "refused"
        /\ req[r].trace["P3"] = "ok"
        /\ req[r].response.kind = "success"

C5_WindowBound ==
    \A p \in Names :
        limit_rps(p) > 0 =>
            Cardinality({i \in 1..Len(requests[p]) :
                            requests[p][i] >= now - window_size})
                <= limit_rps(p)

\* P1's window is full with a timestamp exactly window_size old, a task was
\* denied by it, and P2's deque holds two timestamps.
C5_Witness ==
    /\ requests["P1"] = <<0>>
    /\ now = 1
    /\ Len(requests["P2"]) = 2
    /\ \E r1, r2 \in Req :
          /\ req[r1].at["P1"] = 0
          /\ req[r2].trace["P1"] = "limited"

\* C6: the router starts at most limit_rps(p) dispatches to p inside any
\* interval of window_size seconds, and a served request that a provider's
\* limiter denied is served by a later candidate of its list.
C6_DispatchRate ==
    /\ \A p \in Names : \A t \in 0..MaxTime :
          limit_rps(p) > 0 =>
              Cardinality({r \in Req : /\ req[r].at[p] >= t
                                       /\ req[r].at[p] <= t + window_size})
                  <= limit_rps(p)
    /\ \A r \in Req : \A i \in 1..Len(req[r].providers_to_try) :
          LET order == req[r].providers_to_try
          IN  (/\ req[r].trace[order[i]] = "limited"
               /\ req[r].response.kind = "success")
              => \E j \in (i + 1)..Len(order) :
                    /\ order[j] = req[r].response.selected_provider
                    /\ req[r].at[order[j]] >= 0

\* A burst: both tasks arrive in the same second, P1 serves one and denies
\* the other, which P2 serves.
C6_Witness ==
    \E r1, r2 \in Req :
        /\ req[r1].at["P1"] = 0
        /\ req[r1].response.selected_provider = "P1"
        /\ req[r2].trace["P1"] = "limited"
        /\ req[r2].at["P2"] = 0
        /\ req[r2].response.selected_provider = "P2"

\* C7: try_reserve(p, cost, limit) returns true and adds exactly cost to
\* usage(p) iff limit <= 0 or usage(p) + cost <= limit; otherwise it returns
\* false and leaves every counter and the file unchanged.
C7_TryReserve ==
    \A p \in Names : \A cost \in 0..MaxCostArg : \A limit \in (-1)..MaxLimitArg :
        LET rv == try_reserve(usage_data, file, p, cost, limit, SaveOutcome(disk))
            fits == limit <= 0 \/ get_usage(usage_data, p) + cost <= limit
        IN  /\ rv.ok <=> fits
            /\ rv.ok => /\ get_usage(rv.u, p) = get_usage(usage_data, p) + cost
                        /\ \A q \in Names \ {p} :
                              get_usage(rv.u, q) = get_usage(usage_data, q)
                        /\ rv.f = [exists |-> TRUE, valid |-> TRUE, data |-> rv.u]
            /\ ~rv.ok => rv.u = usage_data /\ rv.f = file

\* The router got both answers from try_reserve on P2: one task holds the
\* reservation, the other was refused.
C7_Witness ==
    \E r1, r2 \in Req :
        /\ req[r1].trace["P2"] = "ok"
        /\ req[r2].trace["P2"] = "refused"
        /\ get_usage(usage_data, "P2") = 1
        /\ file.exists

\* C8: concurrent try_reserve and rollback calls on a provider behave as in
\* some sequential order: with no reset_usage, usage(p) is exactly the units
\* of the reservations made and not rolled back, and the reservations held at
\* once on a limited provider fit under its limit together.
C8_NoLostUpdate ==
    resets = 0 =>
        \A p \in Names :
            /\ get_usage(usage_data, p)
                 = UnitsUpTo(NumReq, p, {"inflight", "ok", "cancelled"})
            /\ limit_monthly(p) > 0
                 => UnitsUpTo(NumReq, p, {"inflight", "ok", "cancelled"})
                        <= limit_monthly(p)

\* Two tasks in flight at once called try_reserve on P2, where one cost
\* fits: one holds the reservation, the other was refused; and both hold
\* one on P3.
C8_Witness ==
    \E r1, r2 \in Req :
        /\ req[r1].trace["P2"] = "failed"
        /\ req[r2].trace["P2"] = "refused"
        /\ req[r1].trace["P3"] = "inflight"
        /\ req[r2].trace["P3"] = "inflight"
        /\ get_usage(usage_data, "P3") = 6
        /\ resets = 0

\* C9: a request cancelled while its dispatch to p is in flight has its
\* reservation rolled back: usage(p) keeps no units of a cancelled attempt.
C9_CancelRollsBack ==
    resets = 0 =>
        \A p \in Names :
            get_usage(usage_data, p) = UnitsUpTo(NumReq, p, {"inflight", "ok"})

\* C10: when the parser rejects the payload, optimize_request returns an
\* error response with code -32600, reserves no quota, consumes no rate-limit
\* slot and dispatches nothing.
C10_ParserRejection ==
    \A r \in Req :
        (req[r].state = "done" /\ ~parse_rpc_request(req[r].payload).ok)
        => /\ req[r].response.kind = "error"
           /\ req[r].response.code = -32600
           /\ \A p \in Names : req[r].trace[p] = "none"

\* C11: if no provider of the list has monthly quota left for the request's
\* method (every provider has limit_monthly > 0 and usage + cost > limit),
\* optimize_request answers -32000 in its "no providers with remaining quota"
\* variant, not the "rate limited or failed" one.
C11_NoQuotaVariant ==
    [][\A r \in Req :
          (/\ req[r].state = "idle"
           /\ req'[r].state = "done"
           /\ parse_rpc_request(req'[r].payload).ok
           /\ \A i \in 1..Len(fleet) :
                 /\ limit_monthly(fleet[i]) > 0
                 /\ get_usage(usage_data, fleet[i])
                      + get_cost(fleet[i], req'[r].method)
                        > limit_monthly(fleet[i]))
          => req'[r].response
               = build_error_response(<<"no_quota">>, req'[r].payload.id,
                                      -32000)]_vars

C13_SuccessKeepsReservation ==
    [][\A r \in Req : \A p \in Names :
          /\ (req[r].trace[p] # "inflight" /\ req'[r].trace[p] = "inflight")
                => get_usage(usage_data', p)
                     = get_usage(usage_data, p) + get_cost(p, req'[r].method)
          /\ req'[r].trace[p] = "ok"
                => /\ req'[r].response.kind = "success"
                   /\ req'[r].response.selected_provider = p
          /\ (req[r].trace[p] = "inflight" /\ req'[r].trace[p] = "ok")
                => usage_data' = usage_data
          /\ (/\ req'[r].trace[p] = "ok"
              /\ resets' = 0
              /\ \A r2 \in Req \ {r} :
                    req'[r2].trace[p] \notin {"inflight", "ok", "cancelled"})
                => get_usage(usage_data', p) = get_cost(p, req'[r].method)]_vars

\* Cold start: the first request was served by P1 and P1's counter is the
\* only one, at cost(P1, eth_blockNumber).
C13_Witness ==
    \E r1, r2 \in Req :
        /\ req[r1].response.kind = "success"
        /\ req[r1].response.selected_provider = "P1"
        /\ req[r1].providers_to_try = <<"P1", "P2", "P3">>
        /\ req[r2].state = "idle"
        /\ usage_data = [q \in {"P1"} |-> get_cost("P1", "eth_blockNumber")]
        /\ get_cost("P1", "eth_blockNumber") = 2

\* The rows of provider p that carry a latency in L.
RowsWith(p, L) == SelectSeq(metrics[p], LAMBDA row : row.latency \in L)

ListIndex(p) == CHOOSE i \in 1..Len(fleet) : fleet[i] = p

\* The latency estimate of p for method m as the fraction sum/count of its
\* recorded latencies; 500 ms when it has no record for m.
Estimate(p, m) ==
    LET idx == {i \in 1..Len(metrics[p]) : metrics[p][i].method = m}
    IN  IF idx = {} THEN [s |-> 500, n |-> 1]
        ELSE [s |-> SumLatency(get_all_records(metrics[p], m)),
              n |-> Cardinality(idx)]

C16_ExplorationReorders ==
    [][\A r \in Req :
          (/\ req[r].state = "idle"
           /\ req'[r].state # "idle"
           /\ parse_rpc_request(req'[r].payload).ok)
          => LET c == get_potential_providers(usage_data, metrics,
                                              req'[r].method)
                 o == req'[r].providers_to_try
             IN  /\ Len(o) = Len(c)
                 /\ {o[i] : i \in 1..Len(o)} = {c[i].provider : i \in 1..Len(c)}
                 /\ \A i, j \in 1..Len(o) : o[i] = o[j] => i = j
                 /\ \/ \A i \in 1..Len(c) : o[i] = c[i].provider
                    \/ \E k \in 1..Len(c) :
                          /\ priority(c[k].provider) = 1
                          /\ o[1] = c[k].provider
                          /\ \A i \in 2..Len(c) :
                                o[i] = IF i <= k THEN c[i - 1].provider
                                       ELSE c[i].provider
                 /\ (\A i \in 1..Len(c) : priority(c[i].provider) # 1)
                      => \A i \in 1..Len(c) : o[i] = c[i].provider]_vars

\* With no latency recorded yet the order is P1, P2; exploration moved P2 to
\* the head and the request was dispatched to it.
C16_Witness ==
    \E r \in Req :
        /\ fleet = free_providers
        /\ req[r].providers_to_try = <<"P2", "P1">>
        /\ req[r].trace["P2"] = "inflight"
        /\ \A p \in Names : metrics[p] = <<>>

\* The providers a request has dispatched to.
Attempted(r) == {p \in Names : req[r].trace[p] \in {"inflight", "ok", "failed"}}

\* C17: when every upstream dispatch returns or fails, every
\* optimize_request call eventually returns a response, after at most as
\* many dispatch attempts as it has candidates, and it never dispatches to
\* the same provider twice.
C17_Terminates ==
    /\ \A r \in Req : (req[r].state = "inflight") ~> (req[r].state = "done")
    /\ [](\A r \in Req :
            LET order == req[r].providers_to_try
            IN  /\ Cardinality(Attempted(r)) <= Len(order)
                /\ \A i, j \in 1..Len(order) : order[i] = order[j] => i = j
                /\ req[r].state = "inflight"
                     => /\ req[r].idx \in 1..Len(order)
                        /\ Attempted(r)
                             \subseteq {order[i] : i \in 1..req[r].idx}
                /\ req[r].state = "done" => req[r].response.kind # "none")
    /\ [][\A r \in Req :
             (req[r].state = "inflight" /\ req'[r] # req[r])
             => \/ req'[r].state = "done"
                \/ /\ req'[r].state = "inflight"
                   /\ req'[r].idx > req[r].idx
                   /\ req'[r].providers_to_try = req[r].providers_to_try]_vars

\* A request that returned -32000 after a failed dispatch to each of its
\* three candidates.
C17_Witness ==
    \E r \in Req :
        /\ req[r].state = "done"
        /\ Len(req[r].providers_to_try) = 3
        /\ \A p \in {"P1", "P2", "P3"} : req[r].trace[p] = "failed"
        /\ req[r].response.code = -32000

\* C18: for any provider, limit > 0 and cost with usage + cost <= limit,
\* try_reserve(p, cost, limit) followed at once by decrement(p, cost) returns
\* get_usage(p), and every other provider's usage, to its prior value.
C18_ReserveThenRollback ==
    \A p \in Names : \A cost \in 0..MaxCostArg : \A limit \in 1..MaxLimitArg :
        get_usage(usage_data, p) + cost <= limit
        => LET rv == try_reserve(usage_data, file, p, cost, limit,
                                 SaveOutcome(disk))
               u2 == decrement(rv.u, p, cost)
           IN  /\ rv.ok
               /\ get_usage(rv.u, p) = get_usage(usage_data, p) + cost
               /\ \A q \in Names : get_usage(u2, q) = get_usage(usage_data, q)

\* The router reserved on P2 first and rolled it back after the dispatch
\* failed: P2's counter exists and is back at 0 while P1 holds units.
C18_Witness ==
    \E r \in Req :
        /\ req[r].providers_to_try = <<"P2", "P1", "P3">>
        /\ req[r].trace["P2"] = "failed"
        /\ "P2" \in DOMAIN usage_data
        /\ usage_data["P2"] = 0
        /\ get_usage(usage_data, "P1") = 2
        /\ file.data = usage_data

\* The providers that served the requests answered so far, in order
\* (requests answered with an error left out).
Served == SelectSeq(history, LAMBDA h : h # "none")

\* C19 (as amended): with free F1 (limit_monthly 50, cost per call 10) and
\* unlimited paid F2, the first 5 sequential requests are served by F1 and
\* leave usage[F1] = 50, and every later request is served by F2.
C19_MonthlySpillover ==
    fleet = spillover_providers =>
        /\ \A i \in 1..Len(Served) :
              Served[i] = IF i <= 5 THEN "F1" ELSE "F2"
        /\ Len(Served) >= 5 => get_usage(usage_data, "F1") = 50
        /\ get_usage(usage_data, "F1") <= 50

\* Seven requests answered: five by F1, which is full at 50, then two by F2.
C19_Witness ==
    /\ fleet = spillover_providers
    /\ limit_monthly("F1") = 50
    /\ get_cost("F1", "eth_blockNumber") = 10
    /\ limit_monthly("F2") = 0
    /\ history = <<"F1", "F1", "F1", "F1", "F1", "F2", "F2">>
    /\ get_usage(usage_data, "F1") = 50
    /\ get_usage(usage_data, "F2") = 2

\* C19 as stated: 10 sequential requests are all served by F1 and leave
\* usage[F1] = 50, and the next request is served by F2.
C19_AsStated ==
    fleet = spillover_providers =>
        /\ \A i \in 1..Len(Served) :
              Served[i] = IF i <= 10 THEN "F1" ELSE "F2"
        /\ Len(Served) >= 10 => get_usage(usage_data, "F1") = 50

C21_WriteFailureOnlyLogged ==
    \A r \in Req :
        (disk # "ok" /\ parse_rpc_request(req[r].payload).ok)
        => /\ \A p \in Names : req[r].trace[p] # "raised"
           /\ req[r].response.code # -32603

\* C22: if the process is killed at any point of a counter-file write, the
\* QuotaManager started afterwards loads either the complete counter map from
\* before that write or the complete map after it, never an empty or
\* otherwise different map.
C22_CrashSafeWrite ==
    [][(crash.down /\ ~crash'.down)
       => usage_data' \in {crash.before, crash.after}]_vars

\* The rows of a store for one (provider, method) pair.
StoreRows(store, provider, method) ==
    SelectSeq(store.df,
              LAMBDA row : row.Provider = provider /\ row.Method = method)

C24_BestNeverCalled == "Best" \notin called

\* Best has records of its own, the optimizer has since scored a snapshot
\* that contains Best's row, and only real providers were ever called.
C24_Witness ==
    /\ out.kind = "optimize"
    /\ "Best" \in out.latest
    /\ called = {"Chainstack", "Alchemy"}

\* C25: metric records stored under the virtual Best provider never enter
\* the historical matrix, the latest snapshot or the CRITIC weights used
\* for scoring, nor the /records and /analytics outputs.
C25_BestExcluded ==
    /\ out.kind \in {"rpc_best", "rpc_best_error", "optimize", "no_providers"}
           => "Best" \notin out.historical \cup out.latest
    /\ out.kind = "records" => "Best" \notin out.records
    /\ out.kind = "analytics" => "Best" \notin out.providers

\* The payloads the statement of C26 calls invalid.
InvalidRequest(payload) ==
    \/ payload.jsonrpc = "MISSING"
    \/ payload.method = "MISSING"
    \/ payload.id.kind = "missing"
    \/ payload.jsonrpc # "2.0"
    \/ payload.method \in {"", " ", "NONSTRING"}
    \/ payload.params \notin {"LIST", "DICT", "MISSING"}
    \/ payload.id.kind \notin {"int", "float", "str"}

\* C26: parse_rpc_request fails with ValueError exactly when jsonrpc, method
\* or id is missing, jsonrpc is not "2.0", method is empty, whitespace or
\* not a string, params is present and neither an array nor an object, or id
\* is neither a number nor a string; every other payload is accepted.
C26_ParserRejectsExactly ==
    out.kind = "parsed" =>
        IF InvalidRequest(arg)
        THEN ~out.result.ok /\ out.result.error = "ValueError"
        ELSE out.result.ok

\* An entry for method m exists and its age is at most ttl_seconds.
Fresh(m) == m \in DOMAIN cache /\ now - cache[m].timestamp <= ttl_seconds

\* C27: get_cached_scores(m) returns the value most recently stored for m
\* if and only if an entry for m exists and its age is at most ttl_seconds,
\* and None otherwise; a read that finds an expired entry removes it;
\* set_cached_scores restarts the entry's age; neither touches the entry of
\* another method.
C27_CacheTtl ==
    [][/\ (reads' = reads + 1) =>
            LET m == out'.method
            IN  /\ out'.value = (IF Fresh(m) THEN stored[m] ELSE "None")
                /\ Fresh(m) => stored[m] # "None"
                /\ (m \in DOMAIN cache /\ ~Fresh(m)) => m \notin DOMAIN cache'
                /\ Fresh(m) => cache' = cache
                /\ \A o \in LegacyMethods \ {m} :
                       /\ (o \in DOMAIN cache') = (o \in DOMAIN cache)
                       /\ o \in DOMAIN cache => cache'[o] = cache[o]
       /\ (out'.kind = "set" /\ <<cache, out>>' # <<cache, out>>) =>
            LET m == out'.method
            IN  /\ cache'[m] = [value |-> out'.value, timestamp |-> now]
                /\ \A o \in LegacyMethods \ {m} :
                       /\ (o \in DOMAIN cache') = (o \in DOMAIN cache)
                       /\ o \in DOMAIN cache => cache'[o] = cache[o]]_vars

\* A read two ticks after the store found the entry expired, returned None
\* and removed it, while the other method's entry, stored later, stayed.
C27_Witness ==
    /\ out = [kind |-> "get", method |-> "eth_call", value |-> "None"]
    /\ stored["eth_call"] = "v1"
    /\ DOMAIN cache = {"eth_blockNumber"}
    /\ now = 2
    /\ misses = 1
    /\ hits = 1

\* C28: every get_cached_scores call increments exactly one of the hit and
\* miss counters, hit exactly when it returns a value; set_cached_scores and
\* invalidate change neither; so hits + misses is always the number of reads
\* since the last reset_stats, whatever the order of the calls.
C28_HitMissAccounting ==
    /\ [](hits + misses = reads)
    /\ [][/\ (reads' = reads + 1) =>
               IF out'.value # "None"
               THEN hits' = hits + 1 /\ misses' = misses
               ELSE hits' = hits /\ misses' = misses + 1
          /\ out'.kind \in {"set", "invalidate"} =>
               (hits' = hits /\ misses' = misses)]_vars

\* Three reads: one of a fresh entry, one of an absent entry, one of an
\* expired entry.
C28_Witness ==
    /\ reads = 3
    /\ hits = 1
    /\ misses = 2
    /\ now = 2
    /\ out = [kind |-> "get", method |-> "eth_call", value |-> "None"]
    /\ stored["eth_call"] = "v2"
    /\ stored["eth_blockNumber"] = "none"

\* The historical records of eth_blockNumber, all providers together.
Historical ==
    get_all_historical_data(stores, load_providers, "eth_blockNumber")

ConstantPrice == Historical # <<>> /\ Constant(Column(Historical, "Price"))

ScoresAreLnorm ==
    \A i \in 1..Len(out.scored_df) :
        /\ out.scored_df[i].Score.lo = out.scored_df[i].Lnorm
        /\ out.scored_df[i].Score.hi = out.scored_df[i].Lnorm

LimiterOpen(p) ==
    \/ limit_rps(p) <= 0
    \/ Cardinality({i \in 1..Len(requests[p]) :
                       requests[p][i] >= now - window_size}) < limit_rps(p)

\* The quota of provider p has room for one call of the method.
QuotaOpen(p, method) ==
    \/ limit_monthly(p) <= 0
    \/ get_usage(usage_data, p) + get_cost(p, method) <= limit_monthly(p)

\* This step gave candidate p of task r the outcome l.
NewOutcome(r, p, l) == req[r].trace[p] # l /\ req'[r].trace[p] = l

\* C30: within one request the steps for a candidate p happen in the order
\* rate check, quota reservation, dispatch: the router dispatches to p only
\* when the limiter allowed p and the reservation on p then succeeded; a
\* candidate denied by the limiter is not reserved (its counter and the
\* limiter queue stay as they were), whatever its quota; a candidate whose
\* reservation failed had passed the limiter and is not dispatched to.
C30_CheckReserveDispatch ==
    [][\A r \in Req, p \in Names :
        /\ NewOutcome(r, p, "inflight") =>
              /\ LimiterOpen(p)
              /\ QuotaOpen(p, req'[r].method)
              /\ get_usage(usage_data', p)
                     = get_usage(usage_data, p) + get_cost(p, req'[r].method)
              /\ req'[r].state = "inflight"
              /\ req'[r].providers_to_try[req'[r].idx] = p
        /\ NewOutcome(r, p, "limited") =>
              /\ ~LimiterOpen(p)
              /\ get_usage(usage_data', p) = get_usage(usage_data, p)
              /\ Len(requests'[p]) <= Len(requests[p])
        /\ NewOutcome(r, p, "refused") =>
              /\ LimiterOpen(p)
              /\ ~QuotaOpen(p, req'[r].method)
              /\ get_usage(usage_data', p) = get_usage(usage_data, p)
        /\ (req'[r].state = "inflight"
            /\ (req[r].state # "inflight" \/ req'[r].idx # req[r].idx)) =>
              /\ NewOutcome(r, req'[r].providers_to_try[req'[r].idx],
                            "inflight")
              /\ \A i \in 1..(req'[r].idx - 1) :
                     req'[r].trace[req'[r].providers_to_try[i]]
                         \in {"limited", "refused", "failed"}]_vars

\* One request went through all three outcomes: P1 was denied by the
\* limiter, P2 passed the limiter and was refused by the quota, and the
\* request is in flight to P3.
C30_Witness ==
    \E r \in Req :
        /\ req[r].state = "inflight"
        /\ req[r].trace["P1"] = "limited"
        /\ req[r].trace["P2"] = "refused"
        /\ req[r].trace["P3"] = "inflight"

\* C31: the rate limiter is unaffected by wall-clock jumps: every provider's
\* timestamp sequence is in non-decreasing order, and after an is_allowed
\* call with limit_rps > 0 every timestamp the provider retains is at least
\* the time of the call minus window_size.
C31_MonotonicWindow ==
    /\ \A p \in Names : \A i, j \in 1..Len(requests[p]) :
          i < j => requests[p][i] <= requests[p][j]
    /\ (out.kind = "is_allowed" /\ out.limit > 0)
          => \A i \in 1..Len(requests[out.provider]) :
                requests[out.provider][i] >= out.t - window_size

\* C32: if more than window_size seconds have passed since the last timestamp
\* recorded for provider p, the next is_allowed(p, limit_rps >= 1) returns
\* true: the router does not skip p as rate-limited, restarts p's window at
\* the time of the call, and dispatches to p if p's quota admits the request.
C32_RateLimitRecovery ==
    [][\A p \in Names :
          (/\ req[1].state = "idle"
           /\ req'[1].state # "idle"
           /\ InFleet(p)
           /\ limit_rps(p) >= 1
           /\ req'[1].trace[p] \in {"limited", "refused", "inflight"}
           /\ requests[p] # <<>>
           /\ now - requests[p][Len(requests[p])] > window_size)
          => /\ req'[1].trace[p] # "limited"
             /\ requests'[p] = <<now>>
             /\ req'[1].trace[p] =
                   (IF check_allowance(usage_data, p, limit_monthly(p),
                                       get_cost(p, req'[1].method))
                    THEN "inflight" ELSE "refused")]_vars

\* P3 served a request, then a request found every provider rate-limited or
\* out of quota, and two seconds later P3 is dispatched to again.
C32_Witness ==
    /\ \E i, j \in 1..Len(history) :
          /\ i < j
          /\ history[i] = "P3"
          /\ history[j] = "none"
    /\ req[1].state = "inflight"
    /\ req[1].trace["P3"] = "inflight"
    /\ req[1].at["P3"] = 2
    /\ requests["P3"] = <<2>>

\* C33: a denied is_allowed call never adds a timestamp: after any number of
\* denials in a row for a provider its deque is no longer than before the
\* first of them, and a call with limit_rps <= 0 returns true and leaves the
\* deque as it was.
C33_DenialsDoNotGrow ==
    out.kind = "is_allowed" =>
        /\ ~out.allowed =>
              /\ Len(requests[out.provider]) <= Len(out.first)
              /\ Len(requests[out.provider]) <= Len(out.before)
        /\ out.limit <= 0 =>
              /\ out.allowed
              /\ requests[out.provider] = out.before

\* Three denials in a row of a provider whose deque held two timestamps
\* before the first of them and holds one now.
C33_Witness ==
    /\ out.kind = "is_allowed"
    /\ ~out.allowed
    /\ out.denials = MaxDenials
    /\ Len(out.first) = 2
    /\ Len(requests[out.provider]) = 1

\* C34: whenever no request is in flight and no reset_usage or cancellation
\* has occurred, usage(p) is its initial value (0) plus the costs of the
\* requests that ended in success with selected provider p, for every
\* interleaving of the concurrent requests.
C34_QuiescentAccounting ==
    (/\ \A r \in Req : req[r].state \notin {"inflight", "cancelled"}
     /\ resets = 0)
    => \A p \in Names :
          get_usage(usage_data, p) = UnitsUpTo(NumReq, p, {"ok"})

ResetsOf(p) == IF p = "P1" THEN resets ELSE 0

RECURSIVE UnitsSince(_, _)
\* The units tasks 1..n reserved on p after p's last reset in dispatches that
\* succeeded.
UnitsSince(n, p) ==
    IF n = 0 THEN 0
    ELSE UnitsSince(n - 1, p)
         + (IF req[n].trace[p] = "ok" /\ req[n].epoch >= ResetsOf(p)
            THEN get_cost(p, req[n].method) ELSE 0)

\* C36: reset_usage(p) concurrent with in-flight requests does not corrupt
\* later accounting: once all requests have finished, usage(p) is the sum of
\* the costs reserved on p after the reset by requests that succeeded, and
\* the rollback of a reservation made before the reset removes no unit.
C36_ResetKeepsLaterUnits ==
    /\ []((\A r \in Req : req[r].state = "done")
            => \A p \in Names : get_usage(usage_data, p) = UnitsSince(NumReq, p))
    /\ [][\A r \in Req : \A p \in Names :
            (/\ req[r].trace[p] = "inflight"
             /\ req'[r].trace[p] = "failed"
             /\ req[r].epoch < ResetsOf(p))
            => get_usage(usage_data', p) = get_usage(usage_data, p)]_vars

\* C37: an upstream reply that decodes to a JSON object is terminal for the
\* request whatever it holds (a result, a JSON-RPC error member, or neither):
\* the router returns build_response of it with that provider's name, keeps
\* the reservation, records the observed latency and asks no further
\* candidate; penalty, rollback and failover follow only an exception raised
\* by the dispatch.
C37_ReplyIsTerminal ==
    [][\A r \in Req : \A p \in Names :
          /\ (req[r].trace[p] = "inflight" /\ req'[r].trace[p] = "ok")
                => /\ req'[r].state = "done"
                   /\ req'[r].response.kind = "success"
                   /\ req'[r].response.selected_provider = p
                   /\ req'[r].response.body
                         \in {"result", "error", "invalid_response"}
                   /\ usage_data' = usage_data
                   /\ file' = file
                   /\ requests' = requests
                   /\ \E l \in Latencies :
                         metrics'[p] = Append(metrics[p],
                                              [method |-> req[r].method,
                                               latency |-> l])
                   /\ \A q \in Names \ {p} :
                         /\ req'[r].trace[q] = req[r].trace[q]
                         /\ metrics'[q] = metrics[q]
          /\ (req[r].trace[p] = "inflight" /\ req'[r].trace[p] = "failed")
                => /\ req'[r].last_error \in UpstreamErrors
                   /\ metrics'[p] = Append(metrics[p],
                                           [method |-> req[r].method,
                                            latency |-> PenaltyLatency])
                   /\ get_usage(usage_data', p)
                         = Max(0, get_usage(usage_data, p)
                                     - req[r].estimated_cost)
          /\ req[r].trace[p] = "inflight"
                => req'[r].trace[p] \in {"inflight", "ok", "failed"}]_vars

\* P1 answered one request with a JSON-RPC error and P2 the other with an
\* object that has neither result nor error: both are returned as they are,
\* the reservations are kept, the latencies recorded and P3 was never asked.
C37_Witness ==
    \E r1, r2 \in Req :
        /\ req[r1].response.kind = "success"
        /\ req[r1].response.body = "error"
        /\ req[r1].response.selected_provider = "P1"
        /\ req[r2].response.kind = "success"
        /\ req[r2].response.body = "invalid_response"
        /\ req[r2].response.selected_provider = "P2"
        /\ req[r1].trace["P3"] = "none"
        /\ req[r2].trace["P3"] = "none"
        /\ usage_data = [q \in {"P1", "P2"} |-> get_cost(q, "eth_blockNumber")]
        /\ metrics["P1"] = <<[method |-> "eth_blockNumber", latency |-> 100]>>
        /\ metrics["P2"] = <<[method |-> "eth_blockNumber", latency |-> 100]>>

\* C38: every response returned by optimize_request, success or error,
\* carries the id of the request it answers, whatever id the upstream put in
\* its reply and however many requests are in flight.
C38_ResponseIdIsRequestId ==
    \A r \in Req :
        req[r].state = "done" => req[r].response.id = req[r].payload.id

\* C39: for every successful request the price_usd of the response equals
\* the price stored in the metrics record appended for that dispatch, also at
\* the request with which the provider's volume crosses its tier threshold.
C39_PriceMatchesRecord ==
    out.kind = "router_success" =>
        LET df == stores[out.provider].df
        IN  /\ df # <<>>
            /\ df[Len(df)].Method = out.method
            /\ df[Len(df)].Latency = out.latency_ms
            /\ out.price_usd = df[Len(df)].Price


\* C40: each method has at most one MethodWorker, requests of one method are
\* processed one at a time in the order of their submits, and every submit
\* receives exactly one result.
WorkersOf(m) == {w \in 1..Len(workers) : workers[w].method = m}

Pending(t) ==
    \E w \in 1..Len(workers) : t \in Queued(w) \/ workers[w].current = t

Taken(t) ==
    /\ threads[t].ticket > 0
    /\ \A w \in 1..Len(workers) : t \notin Queued(w)

C40_OneResult ==
    \A t \in Handlers :
        /\ threads[t].results <= 1
        /\ threads[t].pc = "done" => threads[t].results = 1
        /\ (threads[t].pc = "wait" /\ threads[t].results = 0) => Pending(t)

C40_OneAtATime ==
    \A m \in LegacyMethods :
        Cardinality({w \in WorkersOf(m) : workers[w].current # 0}) <= 1

C40_InOrder ==
    \A t1, t2 \in Handlers :
        (/\ threads[t1].method = threads[t2].method
         /\ threads[t1].ticket > 0
         /\ threads[t1].ticket < threads[t2].ticket
         /\ Taken(t2)) => Taken(t1)

C40_SerializedPerMethod ==
    /\ \A m \in LegacyMethods : Cardinality(WorkersOf(m)) <= 1
    /\ C40_OneAtATime
    /\ C40_InOrder
    /\ C40_OneResult

====
